---- MODULE Spec2Model ----
(***************************************************************************)
(* Collection / chunk / file lifecycle of RagBackend.                      *)
(*                                                                         *)
(* Two generations of the registry live in the repository:                 *)
(*   ragbackend.database.collections  CollectionManager / Collection       *)
(*     (table "collections", one vectorstore table per collection, the     *)
(*      file_storage catalog and the MinIO blobs; the cascading delete)    *)
(*   langconnect.database.collections CollectionsManager / Collection      *)
(*     (table langchain_pg_collection with the owner_id predicate)         *)
(* SpecRB is the state machine of the first, SpecLC of the second.         *)
(***************************************************************************)
EXTENDS Integers, Sequences, FiniteSets, TLC

\* ------------------------------------------------------------------ bounds
MaxColls == 2      \* collections ever created (uuid4 values drawn)
MaxCollsF == 1     \* collections created in the specification with files
MaxFiles == 2      \* file ids ever generated by process_document
MaxProcs == 2      \* delete_collection requests in flight at once
MaxChunks == 2     \* chunks the splitter cuts one file into

Users == {"u1", "u2"}
Names == {"n1", "n2"}
NoName == "none"                      \* name: Optional[str] = None
Procs == 1..MaxProcs

\* A metadata map over the keys "a" (tenant data) and "owner_id"; the value
\* "none" stands for an absent key.
Metadata == [a : {"none", "x"}, owner_id : {"none", "u2"}]
EmptyMeta == [a |-> "none", owner_id |-> "none"]         \* {}
NoneMeta == [a |-> "absent", owner_id |-> "absent"]      \* metadata = None
MetaArg == Metadata \cup {NoneMeta}

VARIABLES
    collections,   \* rb: table "collections": uuid -> [name, table_id, metadata]
    vtables,       \* rb: vectorstore tables: table_id -> set of chunks
    file_storage,  \* rb: table file_storage: set of rows
    blobs,         \* rb: MinIO objects: set of object paths
    nextId,        \* next uuid4 drawn for a collection
    nextFile,      \* next uuid4 drawn for a file
    creator,       \* history: uuid -> the principal whose request created it
    uploader,      \* history: file_id -> <<principal, collection>> of its ingest
    req,           \* delete_collection requests in flight, per slot
    resp,          \* the response of the request that completed last
    lastDel,       \* history: the last completed DeleteCollection and the stores it left
    pg_collection, \* lc: table langchain_pg_collection: uuid -> [name, cmetadata]
    pg_embedding,  \* lc: table langchain_pg_embedding: set of chunk rows
    users,         \* table users: id -> "absent", "active" or "inactive"
    authn,         \* the outcome of the get_current_user call that completed last
    updating,      \* update requests in flight, per slot
    ingesting,     \* file uploads between process_document and the upsert
    chunkmeta,     \* the metadata of the chunks process_document has returned
    creating,      \* create_collection requests in flight, per slot
    pool,          \* connection: the global _pool, the pools open, the next one
    calls,         \* get_db_pool / close_db_pool calls in flight, per slot
    TASK_QUEUE,    \* task_queue: the asyncio.Queue, None being the sentinel
    wk             \* task_queue: the lifespan, the worker, the tasks handed over

vars == <<collections, vtables, file_storage, blobs, nextId, nextFile,
          creator, uploader, req, resp, lastDel, pg_collection, pg_embedding,
          users, authn, updating, ingesting, chunkmeta,
          creating, pool, calls, TASK_QUEUE, wk>>

\* The tables of the ragbackend generation, and those of the langconnect one.
rb == <<collections, vtables, file_storage, blobs, uploader, req, lastDel>>
lc == <<pg_collection, pg_embedding>>

\* The users table and the authentication of a request.
au == <<users, authn>>

\* What a request that is not an update in steps leaves alone besides the
\* tables of the other generation.
\* The state of the services beside the stores.
proc == <<pool, calls, TASK_QUEUE, wk>>

aux == <<chunkmeta, creating, proc>>

bg == <<au, updating, ingesting, aux>>

stores == <<collections, vtables, file_storage, blobs>>

\* ------------------------------------------------------------------ helpers
\* f"collection_{collection_uuid.replace('-', '_')}"
TableOf_shared(uuid) == <<"collection", 0>>

TableOf(uuid) == <<"collection", uuid>>

\* MinIO object path "{user_id}/{collection_id}/{file_id}"
ObjectPath(user, coll, file) == <<user, coll, file>>

\* minio_prefix = f"{user_id}/{collection_uuid}/"
UnderPrefix(path, user, coll) == path[1] = user /\ path[2] = coll

NoBody == [name |-> NoName, metadata |-> NoneMeta, ids |-> <<>>, chunks |-> {},
           count |-> 0]

Idle == [pc |-> "idle", user |-> "none", id |-> 0, table_id |-> <<"collection", 0>>,
         trace |-> <<>>, failed |-> FALSE, overlap |-> FALSE, rerun |-> FALSE,
         conc |-> FALSE, resumed |-> FALSE]

NoUpd == [pc |-> "idle", user |-> "none", id |-> 0, name |-> NoName,
          metadata |-> NoneMeta, existing |-> NoName]

NoIngest == [pc |-> "idle", user |-> "none", coll |-> 0, file_id |-> 0, n |-> 0]

NoCreate == [pc |-> "idle", user |-> "none", uuid |-> 0, name |-> NoName,
             metadata |-> NoneMeta]

\* _pool is None; no task being processed.
NoPool == 0
NoCall == [pc |-> "idle", got |-> NoPool, target |-> NoPool]
NoTask == "none"

NoDel == [valid |-> FALSE, user |-> "none", id |-> 0, status |-> "none",
          snap |-> <<>>]

\* What the caller of the last completed request received.
Response(op, status, body) ==
    [op |-> op, status |-> status, body |-> body, rerun |-> FALSE,
     concurrent |-> FALSE]

\* The ids of the users table, and the outcome before any authentication.
UserIds == {"u1", "u2", "u3"}
NoSub == "none"
NoAuth == [token |-> [key |-> "none", expired |-> FALSE, sub |-> NoSub],
           status |-> "none", detail |-> "none", user |-> NoSub, trace |-> << >>]

InitStores ==
    /\ collections = << >>
    /\ vtables = << >>
    /\ file_storage = {}
    /\ blobs = {}
    /\ nextId = 1
    /\ nextFile = 1
    /\ creator = << >>
    /\ uploader = << >>
    /\ req = [p \in Procs |-> Idle]
    /\ resp = Response("none", "none", NoBody)
    /\ lastDel = NoDel
    /\ pg_collection = << >>
    /\ pg_embedding = {}

Init ==
    /\ InitStores
    /\ users = [i \in UserIds |-> "absent"]
    /\ authn = NoAuth
    /\ updating = [p \in Procs |-> NoUpd]
    /\ ingesting = [p \in Procs |-> NoIngest]
    /\ chunkmeta = {}
    /\ creating = [p \in Procs |-> NoCreate]
    /\ pool = [global |-> NoPool, open |-> {}, next |-> 1]
    /\ calls = [p \in Procs |-> NoCall]
    /\ TASK_QUEUE = <<>>
    /\ wk = [lifespan |-> "init", pc |-> "none", task |-> NoTask, handed |-> <<>>,
             put |-> <<>>]

\* Removal of one key of a table.
Without(f, k) == [x \in DOMAIN f \ {k} |-> f[x]]

\* ORDER BY name
NameRank(n) == IF n = "n1" THEN 1 ELSE 2

SeqsOver(S) == {q \in [1..Cardinality(S) -> S] : \A i, j \in DOMAIN q : i # j => q[i] # q[j]}

\* Every other request than a repeated DeleteCollection ends the "twice in a
\* row" window.
Forget == lastDel' = NoDel

\* A request that is not a step of the DeleteCollection in flight overlaps it.
Disturb == req' = [p \in Procs |->
                     IF req[p].pc = "idle" THEN req[p]
                     ELSE [req[p] EXCEPT !.overlap = TRUE]]

\* ---------------------------------------------------------------- registry
\* CollectionManager.create_collection: the CollectionDetails it returns and
\* the row it inserts.
rb_create_details(name, metadata, uuid) ==
    [name |-> name, table_id |-> TableOf(uuid),
     metadata |-> IF metadata = NoneMeta THEN EmptyMeta ELSE metadata]

\* POST /collections -> CollectionsManager(user.identity).create_collection
create_collection(u, name, metadata) ==
    /\ nextId <= MaxColls
    /\ LET uuid == nextId
           details == rb_create_details(name, metadata, uuid)
       IN /\ vtables' = vtables @@ (details.table_id :> {})
          /\ collections' = collections @@ (uuid :> details)
          /\ creator' = creator @@ (uuid :> u)
          /\ nextId' = nextId + 1
          /\ resp' = Response("create", "201",
                              [NoBody EXCEPT !.name = details.name,
                                              !.metadata = details.metadata])
    /\ Forget
    /\ Disturb
    /\ UNCHANGED <<lc, bg>>
    /\ UNCHANGED <<file_storage, blobs, nextFile, uploader>>

\* create_collection statement by statement. store = await
\* get_vectorstore(collection_name=table_id): the table is initialised;
create_collection_table_skipped(tables, table_id, tableOutcome) == tables

create_collection_table(tables, table_id, tableOutcome) ==
    IF tableOutcome = "raise" THEN tables ELSE tables @@ (table_id :> {})

\* uuid4 drawn, details built, then the table: tableOutcome is what
\* get_vectorstore does ("raise": ainit_vectorstore_table raised and no
\* table was made). An exception leaves create_collection and the handler:
\* 500.
create_collection_provision(p, u, name, metadata, tableOutcome) ==
    /\ creating[p].pc = "idle"
    /\ nextId <= MaxColls
    /\ LET uuid == nextId
       IN /\ vtables' = create_collection_table(vtables, TableOf(uuid), tableOutcome)
          /\ nextId' = nextId + 1
          /\ IF tableOutcome = "ok"
             THEN /\ creating' = [creating EXCEPT ![p] =
                                     [pc |-> "insert", user |-> u, uuid |-> uuid,
                                      name |-> name, metadata |-> metadata]]
                  /\ UNCHANGED resp
             ELSE /\ resp' = Response("create", "500", NoBody)
                  /\ UNCHANGED creating
    /\ Forget
    /\ Disturb
    /\ UNCHANGED <<lc, au, updating, ingesting, chunkmeta, proc>>
    /\ UNCHANGED <<collections, file_storage, blobs, nextFile, creator, uploader>>

\* then INSERT INTO collections (...) VALUES (...), and the details returned;
\* an exception of the INSERT leaves the handler: 500, the table stays.
create_collection_insert(p, insertFail) ==
    /\ creating[p].pc = "insert"
    /\ LET r == creating[p]
           details == rb_create_details(r.name, r.metadata, r.uuid)
       IN IF insertFail
          THEN /\ resp' = Response("create", "500", NoBody)
               /\ UNCHANGED <<collections, creator>>
          ELSE /\ collections' = collections @@ (r.uuid :> details)
               /\ creator' = creator @@ (r.uuid :> r.user)
               /\ resp' = Response("create", "201",
                                   [NoBody EXCEPT !.name = details.name,
                                                   !.metadata = details.metadata])
    /\ creating' = [creating EXCEPT ![p] = NoCreate]
    /\ Forget
    /\ Disturb
    /\ UNCHANGED <<lc, au, updating, ingesting, chunkmeta, proc>>
    /\ UNCHANGED <<vtables, file_storage, blobs, nextId, nextFile, uploader>>

\* CollectionManager.get_collection: SELECT ... FROM collections WHERE uuid = $1
rb_get_row(uuid) ==
    IF uuid \in DOMAIN collections
    THEN [found |-> TRUE, name |-> collections[uuid].name,
          metadata |-> collections[uuid].metadata]
    ELSE [found |-> FALSE, name |-> NoName, metadata |-> NoneMeta]

\* GET /collections/{collection_id}
get_collection(u, uuid) ==
    /\ LET row == rb_get_row(uuid)
       IN resp' = IF row.found
                  THEN Response("get", "200",
                                [NoBody EXCEPT !.name = row.name,
                                                !.metadata = row.metadata])
                  ELSE Response("get", "NotFound", NoBody)
    /\ Forget
    /\ Disturb
    /\ UNCHANGED <<lc, bg>>
    /\ UNCHANGED <<collections, vtables, file_storage, blobs, nextId, nextFile,
                   creator, uploader>>

\* CollectionManager.list_collections: SELECT ... FROM collections ORDER BY name
rb_list_rows(u) == DOMAIN collections

\* GET /collections
list_collections(u) ==
    /\ \E q \in SeqsOver(rb_list_rows(u)) :
          /\ \A i, j \in DOMAIN q :
                i < j => NameRank(collections[q[i]].name) <= NameRank(collections[q[j]].name)
          /\ resp' = Response("list", "200",
                              [NoBody EXCEPT !.ids = q])
    /\ Forget
    /\ Disturb
    /\ UNCHANGED <<lc, bg>>
    /\ UNCHANGED <<collections, vtables, file_storage, blobs, nextId, nextFile,
                   creator, uploader>>

\* CollectionManager.update_collection: the row after the UPDATE statement
rb_updated_row(row, name, metadata) ==
    [row EXCEPT !.name = IF name # NoName THEN name ELSE @,
                !.metadata = IF metadata # NoneMeta THEN metadata ELSE @]

\* PATCH /collections/{collection_id}
update_collection(u, uuid, name, metadata) ==
    /\ IF uuid \notin DOMAIN collections
       THEN /\ resp' = Response("update", "NotFound", NoBody)
            /\ UNCHANGED collections
       ELSE LET row == rb_updated_row(collections[uuid], name, metadata)
            IN /\ collections' = [collections EXCEPT ![uuid] = row]
               /\ resp' = Response("update", "200",
                                   [NoBody EXCEPT !.name = row.name,
                                                   !.metadata = row.metadata])
    /\ Forget
    /\ Disturb
    /\ UNCHANGED <<lc, bg>>
    /\ UNCHANGED <<vtables, file_storage, blobs, nextId, nextFile, creator, uploader>>

\* update_collection statement by statement, for requests that overlap:
\* SELECT * FROM collections WHERE uuid = $1, 404 without a row;
update_collection_select(p, u, uuid, name, metadata) ==
    /\ updating[p].pc = "idle"
    /\ IF uuid \notin DOMAIN collections
       THEN /\ resp' = Response("update", "NotFound", NoBody)
            /\ UNCHANGED updating
       ELSE /\ updating' = [updating EXCEPT ![p] =
                               [pc |-> "rb_update", user |-> u, id |-> uuid,
                                name |-> name, metadata |-> metadata,
                                existing |-> collections[uuid].name]]
            /\ UNCHANGED resp
    /\ Forget
    /\ Disturb
    /\ UNCHANGED <<lc, au, ingesting, aux>>
    /\ UNCHANGED <<collections, vtables, file_storage, blobs, nextId, nextFile,
                   creator, uploader>>

\* UPDATE collections SET name = .., metadata = .. WHERE uuid = $n, with the
\* columns that were given;
update_collection_execute(p) ==
    /\ updating[p].pc = "rb_update"
    /\ collections' = IF updating[p].id \in DOMAIN collections
                      THEN [collections EXCEPT ![updating[p].id] =
                               rb_updated_row(@, updating[p].name, updating[p].metadata)]
                      ELSE collections
    /\ updating' = [updating EXCEPT ![p].pc = "rb_return"]
    /\ Forget
    /\ Disturb
    /\ UNCHANGED <<lc, au, ingesting, aux>>
    /\ UNCHANGED <<vtables, file_storage, blobs, nextId, nextFile, creator,
                   uploader, resp>>

\* SELECT uuid, name, table_id, metadata ... WHERE uuid = $1, returned as the
\* details (row["uuid"] of no row is a TypeError).
update_collection_return(p) ==
    /\ updating[p].pc = "rb_return"
    /\ resp' = IF updating[p].id \in DOMAIN collections
               THEN Response("update", "200",
                             [NoBody EXCEPT !.name = collections[updating[p].id].name,
                                            !.metadata = collections[updating[p].id].metadata])
               ELSE Response("update", "500", NoBody)
    /\ updating' = [updating EXCEPT ![p] = NoUpd]
    /\ Forget
    /\ Disturb
    /\ UNCHANGED <<lc, au, ingesting, aux>>
    /\ UNCHANGED <<collections, vtables, file_storage, blobs, nextId, nextFile,
                   creator, uploader>>

\* ------------------------------------------------- delete_collection (saga)
\* DELETE /collections/{collection_id}: the handler awaits delete_collection,
\* ignores what it returns and answers 204.
collections_delete_status_404(deleted) == IF deleted THEN "ack" ELSE "NotFound"

collections_delete_status(deleted) == "ack"

\* The response of a finished DeleteCollection and the bookkeeping of the
\* "twice in a row" window; conc tells that another DeleteCollection of the
\* same collection was in flight during this one.
FinishDelete(u, uuid, deleted, rerun, conc) ==
    LET again == rerun /\ lastDel.valid
        status == collections_delete_status(deleted)
    IN /\ resp' = [Response("delete", status, NoBody) EXCEPT !.rerun = again,
                                                            !.concurrent = conc]
       /\ lastDel' = IF again THEN lastDel
                     ELSE [valid |-> TRUE, user |-> u, id |-> uuid, status |-> status,
                           snap |-> stores']

\* row = SELECT table_id FROM collections WHERE uuid = $1; if not row: return False
delete_collection_resolve(p, u, uuid) ==
    /\ req[p].pc = "idle"
    /\ LET rerun == lastDel.valid /\ lastDel.user = u /\ lastDel.id = uuid
           conc == \E q \in Procs \ {p} : req[q].pc # "idle" /\ req[q].id = uuid
           resumed == /\ lastDel.status = "cancelled"
                      /\ lastDel.user = u /\ lastDel.id = uuid
       IN IF uuid \notin DOMAIN collections
          THEN /\ UNCHANGED <<collections, vtables, file_storage, blobs, req>>
               /\ FinishDelete(u, uuid, FALSE, rerun, conc)
          ELSE /\ req' = [q \in Procs |->
                            IF q = p
                            THEN [pc |-> "blob", user |-> u, id |-> uuid,
                                  table_id |-> collections[uuid].table_id,
                                  trace |-> <<>>, failed |-> FALSE, overlap |-> FALSE,
                                  rerun |-> rerun, conc |-> conc,
                                  resumed |-> resumed]
                            ELSE IF req[q].pc # "idle" /\ req[q].id = uuid
                            THEN [req[q] EXCEPT !.conc = TRUE]
                            ELSE req[q]]
               /\ lastDel' = IF rerun THEN lastDel ELSE NoDel
               /\ UNCHANGED <<collections, vtables, file_storage, blobs, resp>>
    /\ UNCHANGED <<nextId, nextFile, creator, uploader>>
    /\ UNCHANGED <<lc, bg>>

delete_collection_next_pc_abort_on_failure(step, outcome) ==
    IF outcome # "ok" THEN "idle"
    ELSE IF step = "blob" THEN "catalog"
    ELSE IF step = "catalog" THEN "drop"
    ELSE "registry"

\* The statement delete_collection goes to after a step: a raise of the blob
\* step leaves the try block that also holds delete_files_by_collection;
\* every other outcome of a step is followed by the next step.
delete_collection_next_pc(step, outcome) ==
    IF step = "blob" THEN (IF outcome = "raise" THEN "drop" ELSE "catalog")
    ELSE IF step = "catalog" THEN "drop"
    ELSE "registry"

\* Steps of another request fall between the two calls.
Window(p) == lastDel' = IF req[p].rerun THEN lastDel ELSE NoDel

\* minio_service.delete_files_by_prefix(f"{user_id}/{collection_uuid}/"):
\* removes the objects, fails returning 0, or raises; a raise leaves the try
\* block, so delete_files_by_collection is skipped.
delete_collection_blob(p, outcome) ==
    /\ req[p].pc = "blob"
    /\ blobs' = IF outcome = "ok"
                THEN {b \in blobs : ~UnderPrefix(b, req[p].user, req[p].id)}
                ELSE blobs
    /\ req' = [req EXCEPT ![p].pc = delete_collection_next_pc("blob", outcome),
                          ![p].trace = Append(@, "blob"),
                          ![p].failed = @ \/ outcome # "ok"]
    /\ Window(p)
    /\ UNCHANGED <<lc, bg>>
    /\ UNCHANGED <<collections, vtables, file_storage, nextId, nextFile, creator,
                   uploader, resp>>

\* files.delete_files_by_collection: DELETE FROM file_storage WHERE
\* collection_id = $1 AND user_id = $2; any exception is logged and 0 returned.
delete_files_by_collection(collection_id, user_id, fail) ==
    IF fail THEN file_storage
    ELSE {f \in file_storage : ~(f.collection_id = collection_id /\ f.user_id = user_id)}

delete_collection_catalog(p, fail) ==
    /\ req[p].pc = "catalog"
    /\ file_storage' = delete_files_by_collection(req[p].id, req[p].user, fail)
    /\ req' = [req EXCEPT ![p].pc = delete_collection_next_pc(
                                       "catalog", IF fail THEN "fail" ELSE "ok"),
                          ![p].trace = Append(@, "catalog"),
                          ![p].failed = @ \/ fail]
    /\ Window(p)
    /\ UNCHANGED <<lc, bg>>
    /\ UNCHANGED <<collections, vtables, blobs, nextId, nextFile, creator,
                   uploader, resp>>

\* DROP TABLE IF EXISTS vectorstore_{table_id}; an exception is logged.
delete_collection_drop(p, fail) ==
    /\ req[p].pc = "drop"
    /\ vtables' = IF fail \/ req[p].table_id \notin DOMAIN vtables THEN vtables
                  ELSE Without(vtables, req[p].table_id)
    /\ req' = [req EXCEPT ![p].pc = delete_collection_next_pc(
                                       "drop", IF fail THEN "fail" ELSE "ok"),
                          ![p].trace = Append(@, "drop"),
                          ![p].failed = @ \/ fail]
    /\ Window(p)
    /\ UNCHANGED <<lc, bg>>
    /\ UNCHANGED <<collections, file_storage, blobs, nextId, nextFile, creator,
                   uploader, resp>>

\* result = DELETE FROM collections WHERE uuid = $1; return result != "DELETE 0"
delete_collection_registry(p) ==
    /\ req[p].pc = "registry"
    /\ collections' = IF req[p].id \in DOMAIN collections
                      THEN Without(collections, req[p].id) ELSE collections
    /\ req' = [req EXCEPT ![p] = Idle]
    /\ UNCHANGED <<vtables, file_storage, blobs, nextId, nextFile, creator, uploader>>
    /\ UNCHANGED <<lc, bg>>
    /\ FinishDelete(req[p].user, req[p].id, req[p].id \in DOMAIN collections,
                    req[p].rerun, req[p].conc)

\* The request is cancelled while delete_collection awaits one of its
\* stores: the CancelledError passes the except Exception clauses, the steps
\* already made stay, the remaining ones are not made.
delete_collection_cancel(p) ==
    /\ req[p].pc # "idle"
    /\ req' = [req EXCEPT ![p] = Idle]
    /\ lastDel' = [valid |-> FALSE, user |-> req[p].user, id |-> req[p].id,
                   status |-> "cancelled", snap |-> <<>>]
    /\ UNCHANGED <<collections, vtables, file_storage, blobs, nextId, nextFile,
                   creator, uploader, resp>>
    /\ UNCHANGED <<lc, bg>>

\* ------------------------------------------------------ files and chunks
Files == 1..MaxFiles

\* services.document_processor.process_document: the chunks of one file, each
\* tagged split_doc.metadata["file_id"] = file_id.
process_document_chunks(file_id, n) == {<<file_id, k>> : k \in 1..n}

\* process_document: minio_service.upload_file puts the object at
\* {user_id}/{collection_id}/{file_id}; a failed upload is logged.
process_document_blobs(user, coll, file_id, blobFail) ==
    IF blobFail THEN blobs ELSE blobs \cup {ObjectPath(user, coll, file_id)}

\* process_document: insert_file_metadata(file_metadata) when the upload
\* returned metadata; a failed insert is logged.
process_document_rows(user, coll, file_id, blobFail, catFail) ==
    IF blobFail \/ catFail THEN file_storage
    ELSE file_storage \cup {[file_id |-> file_id, user_id |-> user,
                             collection_id |-> coll,
                             object_path |-> ObjectPath(user, coll, file_id)]}

\* connection.get_vectorstore: engine.ainit_vectorstore_table initialises the
\* table when it does not exist.
get_vectorstore(tables, table_id) ==
    IF table_id \in DOMAIN tables THEN tables ELSE tables @@ (table_id :> {})

\* Collection.add_documents: store.aadd_documents(docs)
add_documents(tables, table_id, docs) ==
    LET t == get_vectorstore(tables, table_id)
    IN [t EXCEPT ![table_id] = @ \cup docs]

\* Collection._load_details: CollectionManager().get_collection(collection_id),
\* which raises 404 when there is no row.
load_details(u, coll) == rb_get_row(coll).found

\* process_document: what it returns. The except around the MinIO upload and
\* the File record insert logs ("Continue with processing even if MinIO
\* storage fails"); the file is then read, parsed, split and tagged.
process_document_split_docs_aborting(file_id, n, blobFail, catFail) ==
    IF blobFail \/ catFail THEN {} ELSE process_document_chunks(file_id, n)

process_document_split_docs(file_id, n, blobFail, catFail) ==
    process_document_chunks(file_id, n)

\* The metadata of a chunk over the keys "file_id", "a" (caller data) and
\* "original_file"; "absent" stands for an absent key. What a caller passes:
ChunkKeys == {"file_id", "a", "original_file"}
CallerMetadata == [ChunkKeys -> {"absent", "x"}]
ParsedMetadata == [k \in ChunkKeys |-> "absent"]

\* process_document: doc.metadata.update(metadata) when metadata is given
\* (a caller key overrides what the parser set);
doc_metadata_update(doc_md, metadata) ==
    [k \in ChunkKeys |-> IF metadata[k] # "absent" THEN metadata[k] ELSE doc_md[k]]

\* then, for every split document, metadata["file_id"] = file_id and, when
\* the upload returned file_metadata, metadata["original_file"] = {...}.
split_doc_metadata(doc_md, file_id, stored) ==
    [doc_md EXCEPT !["file_id"] = file_id,
                   !["original_file"] = IF stored THEN "minio" ELSE @]

\* process_document on one file: file_id = str(uuid.uuid4()) (a new value
\* every time), n chunks, each with the metadata above.
process_document_tag(metadata, n, stored) ==
    /\ nextFile <= MaxFiles
    /\ LET file_id == nextFile
           md == split_doc_metadata(doc_metadata_update(ParsedMetadata, metadata),
                                    file_id, stored)
       IN chunkmeta' = chunkmeta \cup
             {[ingest |-> file_id, k |-> k, caller |-> metadata, metadata |-> md] :
                 k \in 1..n}
    /\ nextFile' = nextFile + 1
    /\ UNCHANGED <<collections, vtables, file_storage, blobs, nextId, creator,
                   uploader, req, resp, lastDel>>
    /\ UNCHANGED <<lc, au, updating, ingesting, creating, proc>>

\* POST /collections/{collection_id}/documents: the collection is resolved,
\* the file processed, its chunks upserted. n is the number of chunks the
\* file splits into, blobFail and catFail what MinIO and the File catalog do
\* with the upload and the insert.
IngestFileRun(u, coll, n, blobFail, catFail) ==
    /\ nextFile <= MaxFiles
    /\ IF ~load_details(u, coll)
       THEN /\ n = 1 /\ ~blobFail /\ ~catFail
            /\ resp' = Response("ingest", "NotFound", NoBody)
            /\ UNCHANGED <<vtables, file_storage, blobs, nextFile, uploader>>
       ELSE LET file_id == nextFile
                docs == process_document_split_docs(file_id, n, blobFail, catFail)
            IN /\ blobFail => ~catFail
               /\ blobs' = process_document_blobs(u, coll, file_id, blobFail)
               /\ file_storage' = process_document_rows(u, coll, file_id, blobFail, catFail)
               /\ vtables' = add_documents(vtables, collections[coll].table_id, docs)
               /\ nextFile' = nextFile + 1
               /\ uploader' = uploader @@ (file_id :> <<u, coll>>)
               /\ resp' = Response("ingest", "200", [NoBody EXCEPT !.chunks = docs])
    /\ Forget
    /\ Disturb
    /\ UNCHANGED <<lc, bg>>
    /\ UNCHANGED <<collections, nextId, creator>>

IngestFile(u, coll) ==
    \E n \in 1..MaxChunks, blobFail, catFail \in BOOLEAN :
       IngestFileRun(u, coll, n, blobFail, catFail)

\* The upload statement by statement. process_document: file_id generated,
\* minio_service.upload_file and insert_file_metadata in a try whose except
\* logs, then the file is parsed and split and the chunks returned;
process_document(p, u, coll) ==
    /\ ingesting[p].pc = "idle"
    /\ nextFile <= MaxFiles
    /\ IF ~load_details(u, coll)
       THEN /\ resp' = Response("ingest", "NotFound", NoBody)
            /\ UNCHANGED <<file_storage, blobs, nextFile, uploader, ingesting>>
       ELSE \E n \in 1..MaxChunks, blobFail, catFail \in BOOLEAN :
            LET file_id == nextFile
            IN /\ blobFail => ~catFail
               /\ blobs' = process_document_blobs(u, coll, file_id, blobFail)
               /\ file_storage' = process_document_rows(u, coll, file_id, blobFail, catFail)
               /\ nextFile' = nextFile + 1
               /\ uploader' = uploader @@ (file_id :> <<u, coll>>)
               /\ ingesting' = [ingesting EXCEPT ![p] =
                                   [pc |-> "upsert", user |-> u, coll |-> coll,
                                    file_id |-> file_id, n |-> n]]
               /\ UNCHANGED resp
    /\ Forget
    /\ Disturb
    /\ UNCHANGED <<lc, au, updating, aux>>
    /\ UNCHANGED <<collections, vtables, nextId, creator>>

\* then Collection.upsert -> add_documents with the chunks it returned:
\* store.aadd_documents(docs), which adds them or raises.
Collection_add_documents(p, upsertFail) ==
    /\ ingesting[p].pc = "upsert"
    /\ LET r == ingesting[p]
           docs == process_document_chunks(r.file_id, r.n)
       IN IF ~load_details(r.user, r.coll)
          THEN /\ ~upsertFail
               /\ resp' = Response("ingest", "NotFound", NoBody)
               /\ UNCHANGED vtables
          ELSE IF upsertFail
          THEN /\ resp' = Response("ingest", "500", NoBody)
               /\ UNCHANGED vtables
          ELSE /\ vtables' = add_documents(vtables, collections[r.coll].table_id, docs)
               /\ resp' = Response("ingest", "200", [NoBody EXCEPT !.chunks = docs])
    /\ ingesting' = [ingesting EXCEPT ![p] = NoIngest]
    /\ Forget
    /\ Disturb
    /\ UNCHANGED <<lc, au, updating, aux>>
    /\ UNCHANGED <<collections, file_storage, blobs, nextId, nextFile, creator, uploader>>

\* files.get_files_by_collection: WHERE collection_id = $1 AND user_id = $2
\* ORDER BY upload_time DESC LIMIT $3 OFFSET $4
get_files_by_collection(coll, user) ==
    {f.file_id : f \in {g \in file_storage : g.collection_id = coll /\ g.user_id = user}}

Slice(q, limit, offset) ==
    SubSeq(q, offset + 1, IF Len(q) < offset + limit THEN Len(q) ELSE offset + limit)

\* Collection.list: the File catalog rows of the collection and the user,
\* the latest upload first.
Collection_list(u, coll, limit, offset) ==
    {Slice(q, limit, offset) :
        q \in {r \in SeqsOver(get_files_by_collection(coll, u)) :
                  \A i, j \in DOMAIN r : i < j => r[i] > r[j]}}

\* GET /collections/{collection_id}/documents
ListUniqueFiles(u, coll, limit, offset) ==
    /\ IF ~load_details(u, coll)
       THEN resp' = Response("listfiles", "NotFound", NoBody)
       ELSE \E q \in Collection_list(u, coll, limit, offset) :
               resp' = Response("listfiles", "200", [NoBody EXCEPT !.ids = q])
    /\ Forget
    /\ Disturb
    /\ UNCHANGED <<lc, bg>>
    /\ UNCHANGED <<collections, vtables, file_storage, blobs, nextId, nextFile,
                   creator, uploader>>

\* Collection.search: similarity_search_with_score over the collection's
\* table (k at least the number of chunks: every chunk is a hit).
Collection_search(tables, table_id) == tables[table_id]

\* POST /collections/{collection_id}/documents/search
SearchChunks(u, coll) ==
    /\ IF ~load_details(u, coll)
       THEN /\ resp' = Response("search", "NotFound", NoBody)
            /\ UNCHANGED vtables
       ELSE LET tid == collections[coll].table_id
                t == get_vectorstore(vtables, tid)
            IN /\ vtables' = t
               /\ resp' = Response("search", "200",
                                   [NoBody EXCEPT !.chunks = Collection_search(t, tid)])
    /\ Forget
    /\ Disturb
    /\ UNCHANGED <<lc, bg>>
    /\ UNCHANGED <<collections, file_storage, blobs, nextId, nextFile, creator, uploader>>

\* files.get_file_metadata: SELECT * FROM file_storage WHERE file_id = $1
get_file_metadata(file_id) == {f \in file_storage : f.file_id = file_id}

\* Collection.delete: SELECT custom_id ... WHERE cmetadata->>'file_id' = $1
Collection_delete_ids(tables, table_id, file_id) ==
    IF table_id \in DOMAIN tables THEN {c \in tables[table_id] : c[1] = file_id} ELSE {}

\* Collection.delete: what it returns. False with no chunk of the file
\* ("No documents found"), else success = await self.delete_documents(doc_ids),
\* which is returned whatever the clean-up in the inner try did.
Collection_delete_result_cleanup_counts(doc_ids, chunkFail, blobOutcome, catFail) ==
    IF doc_ids = {} \/ chunkFail \/ blobOutcome # "ok" \/ catFail THEN "false" ELSE "true"

Collection_delete_result(doc_ids, chunkFail, blobOutcome, catFail) ==
    IF doc_ids = {} \/ chunkFail THEN "false" ELSE "true"

\* DELETE /collections/{collection_id}/documents/{file_id} -> Collection.delete:
\* the chunks of the file are deleted from the vector store, then the blob
\* and the File record; False when no chunk carries the file_id or the chunk
\* deletion failed. chunkFail, blobOutcome and catFail are what the vector
\* store, MinIO and the File catalog do with their step ("raise": the
\* look-up of the File record or the blob deletion raised, "fail": the blob
\* deletion returned False).
DeleteFileRun(u, coll, file_id, chunkFail, blobOutcome, catFail) ==
    /\ IF ~load_details(u, coll)
       THEN /\ ~chunkFail /\ blobOutcome = "ok" /\ ~catFail
            /\ resp' = Response("deletefile", "NotFound", NoBody)
            /\ UNCHANGED <<vtables, file_storage, blobs>>
       ELSE LET tid == collections[coll].table_id
                doc_ids == Collection_delete_ids(vtables, tid, file_id)
                meta == get_file_metadata(file_id)
                result == Collection_delete_result(doc_ids, chunkFail, blobOutcome, catFail)
            IN IF doc_ids = {}
               THEN /\ ~chunkFail /\ blobOutcome = "ok" /\ ~catFail
                    /\ resp' = Response("deletefile", result, NoBody)
                    /\ UNCHANGED <<vtables, file_storage, blobs>>
               ELSE IF chunkFail
               THEN /\ blobOutcome = "ok" /\ ~catFail
                    /\ resp' = Response("deletefile", result, NoBody)
                    /\ UNCHANGED <<vtables, file_storage, blobs>>
               ELSE /\ meta = {} => (blobOutcome = "ok" /\ ~catFail)
                    /\ blobOutcome = "raise" => ~catFail
                    /\ vtables' = [vtables EXCEPT ![tid] = @ \ doc_ids]
                    /\ blobs' = IF blobOutcome = "ok"
                                THEN blobs \ {f.object_path : f \in meta}
                                ELSE blobs
                    /\ file_storage' = IF blobOutcome = "raise" \/ catFail
                                       THEN file_storage
                                       ELSE file_storage \ meta
                    /\ resp' = Response("deletefile", result, NoBody)
    /\ Forget
    /\ Disturb
    /\ UNCHANGED <<lc, bg>>
    /\ UNCHANGED <<collections, nextId, nextFile, creator, uploader>>

DeleteFile(u, coll, file_id) ==
    \E chunkFail \in BOOLEAN, blobOutcome \in {"ok", "fail", "raise"}, catFail \in BOOLEAN :
       DeleteFileRun(u, coll, file_id, chunkFail, blobOutcome, catFail)

\* api.files.delete_file (DELETE /files/{file_id}): 404 without a File
\* record, 403 when the record is another user's; then the blob and the File
\* record are deleted. The chunks of the file stay in the vector store.
delete_file_run(u, file_id, blobFail, catFail) ==
    /\ LET meta == get_file_metadata(file_id)
       IN IF meta = {}
          THEN /\ ~blobFail /\ ~catFail
               /\ resp' = Response("delete_file", "NotFound", NoBody)
               /\ UNCHANGED <<file_storage, blobs>>
          ELSE IF \E f \in meta : f.user_id # u
          THEN /\ ~blobFail /\ ~catFail
               /\ resp' = Response("delete_file", "Forbidden", NoBody)
               /\ UNCHANGED <<file_storage, blobs>>
          ELSE /\ blobs' = IF blobFail THEN blobs
                           ELSE blobs \ {f.object_path : f \in meta}
               /\ file_storage' = IF catFail THEN file_storage ELSE file_storage \ meta
               /\ resp' = Response("delete_file", "200", NoBody)
    /\ Forget
    /\ Disturb
    /\ UNCHANGED <<lc, bg>>
    /\ UNCHANGED <<collections, vtables, nextId, nextFile, creator, uploader>>

delete_file(u, file_id) ==
    \E blobFail, catFail \in BOOLEAN : delete_file_run(u, file_id, blobFail, catFail)

\* api.files.get_file_info (GET /files/{file_id}/info): the File record is
\* fetched by file_id alone; 404 without a record, 403 "Access denied" when
\* the record is another user's, else the record (with what MinIO knows of
\* the blob).
get_file_info(u, file_id) ==
    /\ LET meta == get_file_metadata(file_id)
       IN resp' = IF meta = {}
                  THEN Response("fileinfo", "NotFound", NoBody)
                  ELSE IF \E f \in meta : f.user_id # u
                  THEN Response("fileinfo", "Forbidden", NoBody)
                  ELSE Response("fileinfo", "200", [NoBody EXCEPT !.ids = <<file_id>>])
    /\ Forget
    /\ Disturb
    /\ UNCHANGED <<lc, bg>>
    /\ UNCHANGED <<collections, vtables, file_storage, blobs, nextId, nextFile,
                   creator, uploader>>

\* ------------------------------------------------- connection: the pool
MaxPools == 3      \* pools asyncpg.create_pool ever makes

\* What the calls leave alone.
PoolFrame ==
    /\ UNCHANGED <<collections, vtables, file_storage, blobs, nextId, nextFile,
                   creator, uploader, req, resp, lastDel>>
    /\ UNCHANGED <<lc, au, updating, ingesting, chunkmeta, creating, TASK_QUEUE, wk>>

\* get_db_pool: "if _pool is None:" is false: return _pool; true: the
\* coroutine goes on to await asyncpg.create_pool(...).
get_db_pool_test(p) ==
    /\ calls[p].pc = "idle"
    /\ pool.next <= MaxPools
    /\ calls' = [calls EXCEPT ![p] =
                    IF pool.global = NoPool
                    THEN [pc |-> "create_pool", got |-> NoPool, target |-> NoPool]
                    ELSE [pc |-> "idle", got |-> pool.global, target |-> NoPool]]
    /\ UNCHANGED pool
    /\ PoolFrame

\* The await returns: _pool = <the new pool>; return _pool. An exception of
\* create_pool leaves the call.
get_db_pool_create(p, fail) ==
    /\ calls[p].pc = "create_pool"
    /\ IF fail
       THEN /\ calls' = [calls EXCEPT ![p] = NoCall]
            /\ UNCHANGED pool
       ELSE /\ pool' = [global |-> pool.next, open |-> pool.open \cup {pool.next},
                        next |-> pool.next + 1]
            /\ calls' = [calls EXCEPT ![p] =
                           [pc |-> "idle", got |-> pool.next, target |-> NoPool]]
    /\ PoolFrame

\* close_db_pool: "if _pool:" then await _pool.close() on the pool that is
\* the global now;
close_db_pool_test(p) ==
    /\ calls[p].pc = "idle"
    /\ pool.global # NoPool
    /\ calls' = [calls EXCEPT ![p] =
                    [pc |-> "close", got |-> NoPool, target |-> pool.global]]
    /\ UNCHANGED pool
    /\ PoolFrame

\* the await returns: that pool is closed, _pool = None. What the callers
\* hold is of no use any more.
close_db_pool_reset(p) ==
    /\ calls[p].pc = "close"
    /\ pool' = [pool EXCEPT !.global = NoPool, !.open = @ \ {calls[p].target}]
    /\ calls' = [q \in Procs |->
                    IF q = p THEN NoCall ELSE [calls[q] EXCEPT !.got = NoPool]]
    /\ PoolFrame

\* ------------------------------------------------ task_queue: the worker
MaxTasks == 3      \* tasks add_task_to_queue ever enqueues

\* What add_task_to_queue is called with: a dict with a "type" the worker
\* knows, a dict with another one, the empty dict {}. None is what the
\* lifespan enqueues at shutdown.
Tasks == {"index_document", "other", "empty_dict"}
Sentinel == "None"

\* worker: "if not task:" holds of None and of every other falsy value.
worker_not_task(task) == task \in {Sentinel, "empty_dict"}

WorkerFrame ==
    /\ UNCHANGED <<collections, vtables, file_storage, blobs, nextId, nextFile,
                   creator, uploader, req, resp, lastDel>>
    /\ UNCHANGED <<lc, au, updating, ingesting, chunkmeta, creating, pool, calls>>

\* lifespan, before the yield: loop.create_task(worker()).
lifespan_startup ==
    /\ wk.lifespan = "init"
    /\ wk' = [wk EXCEPT !.lifespan = "running", !.pc = "get"]
    /\ UNCHANGED TASK_QUEUE
    /\ WorkerFrame

\* lifespan, after the yield: TASK_QUEUE.put_nowait(None).
lifespan_shutdown ==
    /\ wk.lifespan = "running"
    /\ wk' = [wk EXCEPT !.lifespan = "shutdown"]
    /\ TASK_QUEUE' = Append(TASK_QUEUE, Sentinel)
    /\ WorkerFrame

\* add_task_to_queue: TASK_QUEUE.put_nowait(task). wk.put keeps the tasks
\* enqueued before the sentinel.
add_task_to_queue(task) ==
    /\ Len(wk.put) < MaxTasks
    /\ wk.lifespan # "shutdown"
    /\ TASK_QUEUE' = Append(TASK_QUEUE, task)
    /\ wk' = [wk EXCEPT !.put = Append(@, task)]
    /\ WorkerFrame

\* worker: task = await TASK_QUEUE.get(); "if not task: break", else
\* process_task(task) is called; finally TASK_QUEUE.task_done().
worker_get ==
    /\ wk.pc = "get"
    /\ TASK_QUEUE # <<>>
    /\ LET task == Head(TASK_QUEUE)
       IN wk' = IF worker_not_task(task)
                THEN [wk EXCEPT !.pc = "exited", !.task = NoTask]
                ELSE [wk EXCEPT !.pc = "process", !.task = task,
                                !.handed = Append(@, task)]
    /\ TASK_QUEUE' = Tail(TASK_QUEUE)
    /\ WorkerFrame

\* await process_task(task) returns or raises; "except Exception" logs; the
\* loop goes on.
worker_process_task(raises) ==
    /\ wk.pc = "process"
    /\ wk' = [wk EXCEPT !.pc = "get", !.task = NoTask]
    /\ UNCHANGED TASK_QUEUE
    /\ WorkerFrame

\* ------------------------------------------------------ ragbackend: auth
\* A bearer token: the key that signed it, whether its exp has passed, and
\* its sub claim (NoSub when the payload carries none).
Tokens == [key : {"SECRET_KEY", "other"}, expired : BOOLEAN, sub : UserIds \cup {NoSub}]

\* jwt_service.verify_token: jwt.decode with config.SECRET_KEY; the payload,
\* or None on a JWTError (bad signature, expired).
verify_token(token) ==
    IF token.key = "SECRET_KEY" /\ ~token.expired
    THEN [ok |-> TRUE, sub |-> token.sub]
    ELSE [ok |-> FALSE, sub |-> NoSub]

\* users.get_user_by_id: SELECT ... FROM users WHERE id = $1
get_user_by_id(tbl, user_id) ==
    IF user_id \in DOMAIN tbl /\ tbl[user_id] # "absent"
    THEN [found |-> TRUE, id |-> user_id, is_active |-> tbl[user_id] = "active"]
    ELSE [found |-> FALSE, id |-> NoSub, is_active |-> FALSE]

get_current_user_result_inactive_accepted(token, tbl) ==
    LET payload == verify_token(token)
        user == get_user_by_id(tbl, payload.sub)
    IN IF ~payload.ok
       THEN [status |-> "401", detail |-> "Invalid token", user |-> NoSub,
             trace |-> <<"verify_token">>]
       ELSE IF payload.sub = NoSub
       THEN [status |-> "401", detail |-> "Invalid token payload", user |-> NoSub,
             trace |-> <<"verify_token", "sub">>]
       ELSE IF ~user.found
       THEN [status |-> "401", detail |-> "User not found", user |-> NoSub,
             trace |-> <<"verify_token", "sub", "get_user_by_id">>]
       ELSE [status |-> "user", detail |-> "none", user |-> user.id,
             trace |-> <<"verify_token", "sub", "get_user_by_id", "is_active">>]

\* auth.get_current_user: what it returns or raises, and the checks it made
\* on the way, in the order it made them.
get_current_user_result(token, tbl) ==
    LET payload == verify_token(token)
        user == get_user_by_id(tbl, payload.sub)
    IN IF ~payload.ok
       THEN [status |-> "401", detail |-> "Invalid token", user |-> NoSub,
             trace |-> <<"verify_token">>]
       ELSE IF payload.sub = NoSub
       THEN [status |-> "401", detail |-> "Invalid token payload", user |-> NoSub,
             trace |-> <<"verify_token", "sub">>]
       ELSE IF ~user.found
       THEN [status |-> "401", detail |-> "User not found", user |-> NoSub,
             trace |-> <<"verify_token", "sub", "get_user_by_id">>]
       ELSE IF ~user.is_active
       THEN [status |-> "401", detail |-> "User account is inactive", user |-> NoSub,
             trace |-> <<"verify_token", "sub", "get_user_by_id", "is_active">>]
       ELSE [status |-> "user", detail |-> "none", user |-> user.id,
             trace |-> <<"verify_token", "sub", "get_user_by_id", "is_active">>]

get_current_user(token) ==
    /\ LET r == get_current_user_result(token, users)
       IN authn' = [token |-> token, status |-> r.status, detail |-> r.detail,
                    user |-> r.user, trace |-> r.trace]
    /\ UNCHANGED <<rb, lc, users, updating, ingesting, aux, nextId, nextFile, creator, resp>>

\* ------------------------------------------- langconnect: CollectionsManager
\* The response of an entry point of the langconnect generation, which
\* touches no table of the other generation.
LcDone(r) ==
    /\ resp' = r
    /\ UNCHANGED <<rb, bg>>

\* CollectionsManager.create: metadata.copy() if metadata else {}, then
\* metadata["owner_id"] = self.user_id and metadata["name"] = collection_name.
lc_create_cmetadata(u, name, metadata) ==
    [a |-> IF metadata = NoneMeta THEN "none" ELSE metadata.a,
     owner_id |-> u, name |-> name]

\* json.loads(rec["cmetadata"]) with the "name" key popped
lc_details(cmetadata) ==
    [name |-> cmetadata.name,
     metadata |-> [a |-> cmetadata.a, owner_id |-> cmetadata.owner_id]]

\* CollectionsManager.create: the vector store creates the row, which is
\* fetched back by its table name and owner.
CollectionsManager_create(u, name, metadata) ==
    /\ nextId <= MaxColls
    /\ LET uuid == nextId
           cm == lc_create_cmetadata(u, name, metadata)
       IN /\ pg_collection' = pg_collection @@
                               (uuid :> [uuid |-> uuid, name |-> TableOf(uuid),
                                         cmetadata |-> cm])
          /\ creator' = creator @@ (uuid :> u)
          /\ nextId' = nextId + 1
          /\ LcDone(Response("create", "201",
                             [NoBody EXCEPT !.name = lc_details(cm).name,
                                            !.metadata = lc_details(cm).metadata]))
    /\ UNCHANGED <<pg_embedding, nextFile>>

\* langconnect.database.get_pgvector_collection_details(collection_name):
\* the details of a collection of that name, if there is one.
get_pgvector_collection_details(name) ==
    \E id \in DOMAIN pg_collection : pg_collection[id].cmetadata.name = name

\* langconnect.api.collections.collections_create: a collection of that name
\* exists -> HTTPException 409, which the handler's own except Exception
\* turns into a 500; otherwise the collection is created.
collections_create(u, name, metadata) ==
    IF get_pgvector_collection_details(name)
    THEN /\ LcDone(Response("create", "500", NoBody))
         /\ UNCHANGED <<pg_collection, pg_embedding, nextId, nextFile, creator>>
    ELSE CollectionsManager_create(u, name, metadata)

\* CollectionsManager.get: WHERE uuid = $1 AND cmetadata->>'owner_id' = $2
lc_get(u, uuid) ==
    IF uuid \in DOMAIN pg_collection /\ pg_collection[uuid].cmetadata.owner_id = u
    THEN [found |-> TRUE, name |-> lc_details(pg_collection[uuid].cmetadata).name,
          metadata |-> lc_details(pg_collection[uuid].cmetadata).metadata]
    ELSE [found |-> FALSE, name |-> NoName, metadata |-> NoneMeta]

CollectionsManager_get(u, uuid) ==
    /\ LET rec == lc_get(u, uuid)
       IN LcDone(IF rec.found
                 THEN Response("get", "200", [NoBody EXCEPT !.name = rec.name,
                                                            !.metadata = rec.metadata])
                 ELSE Response("get", "NotFound", NoBody))
    /\ UNCHANGED <<pg_collection, pg_embedding, nextId, nextFile, creator>>

\* CollectionsManager.list: WHERE cmetadata->>'owner_id' = $1
\* ORDER BY cmetadata->>'name'
lc_list(u) == {id \in DOMAIN pg_collection : pg_collection[id].cmetadata.owner_id = u}

CollectionsManager_list(u) ==
    /\ \E q \in SeqsOver(lc_list(u)) :
          /\ \A i, j \in DOMAIN q :
                i < j => NameRank(pg_collection[q[i]].cmetadata.name)
                            <= NameRank(pg_collection[q[j]].cmetadata.name)
          /\ LcDone(Response("list", "200", [NoBody EXCEPT !.ids = q]))
    /\ UNCHANGED <<pg_collection, pg_embedding, nextId, nextFile, creator>>

\* CollectionsManager.update, metadata supplied: merged = metadata.copy(),
\* merged["owner_id"] = self.user_id, merged["name"] = the new name or the
\* existing one.
lc_merged_tenant_owner(u, name, metadata, existing) ==
    [a |-> metadata.a, owner_id |-> metadata.owner_id,
     name |-> IF name # NoName THEN name ELSE existing]

lc_merged(u, name, metadata, existing) ==
    [a |-> metadata.a, owner_id |-> u,
     name |-> IF name # NoName THEN name ELSE existing]

\* A row whose table name follows the display name.
lc_update_set_renames_table(row, cm) ==
    [row EXCEPT !.cmetadata = cm, !.name = TableOf(MaxColls + NameRank(cm.name))]

\* UPDATE langchain_pg_collection SET cmetadata = ... WHERE uuid = $2 AND
\* cmetadata->>'owner_id' = $3: the row after the statement.
lc_update_set(row, cm) == [row EXCEPT !.cmetadata = cm]

\* CollectionsManager.update
CollectionsManager_update(u, uuid, name, metadata) ==
    /\ LET owned == lc_get(u, uuid).found
       IN IF metadata = NoneMeta /\ name = NoName
          THEN /\ LcDone(Response("update", "Validation", NoBody))
               /\ UNCHANGED pg_collection
          ELSE IF ~owned
          THEN /\ LcDone(Response("update", "NotFound", NoBody))
               /\ UNCHANGED pg_collection
          ELSE LET old == pg_collection[uuid].cmetadata
                   cm == IF metadata # NoneMeta
                         THEN lc_merged(u, name, metadata, old.name)
                         ELSE [old EXCEPT !.name = name]
               IN /\ pg_collection' = [pg_collection EXCEPT
                                          ![uuid] = lc_update_set(@, cm)]
                  /\ LcDone(Response("update", "200",
                                     [NoBody EXCEPT !.name = lc_details(cm).name,
                                                    !.metadata = lc_details(cm).metadata]))
    /\ UNCHANGED <<pg_embedding, nextId, nextFile, creator>>

\* CollectionsManager.update with metadata and no name, statement by
\* statement, for requests that overlap: existing = await self.get(id), 404
\* if None, merged["name"] = existing["name"];
CollectionsManager_update_get(p, u, uuid, metadata) ==
    /\ updating[p].pc = "idle"
    /\ metadata # NoneMeta
    /\ LET existing == lc_get(u, uuid)
       IN IF ~existing.found
          THEN /\ resp' = Response("update", "NotFound", NoBody)
               /\ UNCHANGED updating
          ELSE /\ updating' = [updating EXCEPT ![p] =
                                  [pc |-> "lc_update", user |-> u, id |-> uuid,
                                   name |-> NoName, metadata |-> metadata,
                                   existing |-> existing.name]]
               /\ UNCHANGED resp
    /\ UNCHANGED <<rb, au, ingesting, aux>>
    /\ UNCHANGED <<pg_collection, pg_embedding, nextId, nextFile, creator>>

\* then UPDATE langchain_pg_collection SET cmetadata = $1::jsonb WHERE uuid =
\* $2 AND cmetadata->>'owner_id' = $3 RETURNING ..., 404 without a row.
CollectionsManager_update_set(p) ==
    /\ updating[p].pc = "lc_update"
    /\ LET r == updating[p]
           cm == lc_merged(r.user, NoName, r.metadata, r.existing)
       IN IF lc_get(r.user, r.id).found
          THEN /\ pg_collection' = [pg_collection EXCEPT ![r.id] = lc_update_set(@, cm)]
               /\ resp' = Response("update", "200",
                                   [NoBody EXCEPT !.name = lc_details(cm).name,
                                                  !.metadata = lc_details(cm).metadata])
          ELSE /\ UNCHANGED pg_collection
               /\ resp' = Response("update", "NotFound", NoBody)
    /\ updating' = [updating EXCEPT ![p] = NoUpd]
    /\ UNCHANGED <<rb, au, ingesting, aux>>
    /\ UNCHANGED <<pg_embedding, nextId, nextFile, creator>>

\* CollectionsManager.delete: DELETE FROM langchain_pg_collection WHERE
\* uuid = $1 AND cmetadata->>'owner_id' = $2; the embedding rows of the
\* collection go with it (ON DELETE CASCADE); returns the row count.
CollectionsManager_delete(u, uuid) ==
    /\ IF lc_get(u, uuid).found
       THEN /\ pg_collection' = Without(pg_collection, uuid)
            /\ pg_embedding' = {e \in pg_embedding : e.collection_id # uuid}
            /\ LcDone(Response("delete", "ack", [NoBody EXCEPT !.count = 1]))
       ELSE /\ UNCHANGED <<pg_collection, pg_embedding>>
            /\ LcDone(Response("delete", "ack", [NoBody EXCEPT !.count = 0]))
    /\ UNCHANGED <<nextId, nextFile, creator>>

\* ------------------------------------------------- langconnect: Collection
\* Collection._get_details_or_raise: CollectionsManager(user_id).get, 404 if None
get_details_or_raise(u, coll) == lc_get(u, coll).found

\* Collection.upsert: the chunks of one processed file are added.
Collection_upsert(u, coll) ==
    /\ nextFile <= MaxFiles
    /\ IF ~get_details_or_raise(u, coll)
       THEN /\ LcDone(Response("ingest", "NotFound", NoBody))
            /\ UNCHANGED <<pg_embedding, nextFile>>
       ELSE \E n \in 1..MaxChunks :
            LET docs == process_document_chunks(nextFile, n)
            IN /\ pg_embedding' = pg_embedding \cup
                     {[collection_id |-> coll, file_id |-> d[1], id |-> d] : d \in docs}
               /\ nextFile' = nextFile + 1
               /\ LcDone(Response("ingest", "200", [NoBody EXCEPT !.chunks = docs]))
    /\ UNCHANGED <<pg_collection, nextId, creator>>

\* Collection.delete(file_id): DELETE FROM langchain_pg_embedding USING
\* langchain_pg_collection WHERE the collection is $1, owned by $2, and the
\* chunk's file_id is $3; with no row deleted the collection is resolved.
lc_file_chunks(u, coll, file_id) ==
    {e \in pg_embedding : /\ e.collection_id = coll
                          /\ lc_get(u, coll).found
                          /\ e.file_id = file_id}

\* Collection.delete: deleted_count = int(result.split()[-1]) is logged and
\* "return True" is the value returned, which as a number is 1.
Collection_delete_return(deleted_count) == 1

Collection_delete(u, coll, file_id) ==
    /\ LET gone == lc_file_chunks(u, coll, file_id)
           deleted_count == Cardinality(gone)
       IN /\ pg_embedding' = pg_embedding \ gone
          /\ LcDone(IF deleted_count = 0 /\ ~get_details_or_raise(u, coll)
                    THEN Response("deletefile", "NotFound", NoBody)
                    ELSE Response("deletefile", "true",
                                  [NoBody EXCEPT
                                     !.count = Collection_delete_return(deleted_count)]))
    /\ UNCHANGED <<pg_collection, nextId, nextFile, creator>>

\* Collection.list: SELECT DISTINCT ON (file_id) ... ORDER BY file_id, id:
\* the chunk of the least id of every file of the collection.
UniqueFileChunks(u, coll) ==
    {e \in pg_embedding :
        /\ e.collection_id = coll
        /\ lc_get(u, coll).found
        /\ \A o \in pg_embedding :
              (o.collection_id = coll /\ o.file_id = e.file_id) => e.id[2] <= o.id[2]}

\* ... ORDER BY ufc.file_id LIMIT $3 OFFSET $4; with no row the collection
\* is resolved.
LC_Collection_list(u, coll, limit, offset) ==
    /\ \E q \in SeqsOver({e.id : e \in UniqueFileChunks(u, coll)}) :
          /\ \A i, j \in DOMAIN q : i < j => q[i][1] < q[j][1]
          /\ LET docs == Slice(q, limit, offset)
             IN LcDone(IF docs = <<>> /\ ~get_details_or_raise(u, coll)
                       THEN Response("listfiles", "NotFound", NoBody)
                       ELSE Response("listfiles", "200", [NoBody EXCEPT !.ids = docs]))
    /\ UNCHANGED <<pg_collection, pg_embedding, nextId, nextFile, creator>>

\* Collection.search: the collection is resolved, then searched.
LC_Collection_search(u, coll) ==
    /\ LcDone(IF ~get_details_or_raise(u, coll)
              THEN Response("search", "NotFound", NoBody)
              ELSE Response("search", "200",
                            [NoBody EXCEPT !.chunks =
                                {e.id : e \in {x \in pg_embedding : x.collection_id = coll}}]))
    /\ UNCHANGED <<pg_collection, pg_embedding, nextId, nextFile, creator>>

\* search_documents_in_vectorstore(user, collection, query, limit): the chunks
\* of the caller's collection (limit at least the number of chunks).
search_documents_in_vectorstore(u, coll) ==
    IF lc_get(u, coll).found
    THEN {e.id : e \in {x \in pg_embedding : x.collection_id = coll}}
    ELSE {}

documents_search_status_resolves_first(found, query) ==
    IF ~found THEN "NotFound" ELSE IF query = "" THEN "Validation" ELSE "200"

\* documents_search: if not search_query.query -> HTTPException 400 "Search
\* query cannot be empty", before search_documents_in_vectorstore is called.
documents_search_status(found, query) ==
    IF query = "" THEN "Validation" ELSE IF ~found THEN "NotFound" ELSE "200"

\* POST /collections/{collection}/documents/search
documents_search(u, coll, query) ==
    /\ LET st == documents_search_status(lc_get(u, coll).found, query)
       IN LcDone(IF st = "200"
                 THEN Response("search", "200",
                               [NoBody EXCEPT !.chunks =
                                   search_documents_in_vectorstore(u, coll)])
                 ELSE Response("search", st, NoBody))
    /\ UNCHANGED <<pg_collection, pg_embedding, nextId, nextFile, creator>>

\* documents_create: the checks on metadatas_json, for nfiles uploaded files.
\* An absent (or empty) form field is a list of None; json.loads failing is
\* a 400, and so is a value that is not a list, a list of another length
\* than the files, or a list with an item that is not a dict.
documents_create_metadatas(mj, nfiles) ==
    IF ~mj.given THEN "ok"
    ELSE IF ~mj.json THEN "Validation"
    ELSE IF ~mj.list THEN "Validation"
    ELSE IF mj.len # nfiles THEN "Validation"
    ELSE IF ~mj.dicts THEN "Validation"
    ELSE "ok"

\* langconnect.api.documents.documents_create (one uploaded file): the
\* collection is looked up inside a try whose except Exception turns the
\* handler's own 404 into a 500; then metadatas_json is checked; then the
\* file is processed and its chunks are added to the vector store.
documents_create(u, coll, mj) ==
    /\ nextFile <= MaxFiles
    /\ IF ~lc_get(u, coll).found
       THEN /\ LcDone(Response("ingest", "500", NoBody))
            /\ UNCHANGED <<pg_embedding, nextFile>>
       ELSE IF documents_create_metadatas(mj, 1) # "ok"
       THEN /\ LcDone(Response("ingest", "Validation", NoBody))
            /\ UNCHANGED <<pg_embedding, nextFile>>
       ELSE \E n \in 1..MaxChunks :
            LET docs == process_document_chunks(nextFile, n)
            IN /\ pg_embedding' = pg_embedding \cup
                     {[collection_id |-> coll, file_id |-> d[1], id |-> d] : d \in docs}
               /\ nextFile' = nextFile + 1
               /\ LcDone(Response("ingest", "200", [NoBody EXCEPT !.chunks = docs]))
    /\ UNCHANGED <<pg_collection, nextId, creator>>

\* ------------------------------------------------------------- specification
Ids == 1..MaxColls

\* The metadatas_json form field of an upload of one file: absent, not JSON,
\* JSON that is not a list, a list of two objects, a list of one item that
\* is not an object, a list of one object.
NoMetadatas == [given |-> FALSE, json |-> FALSE, list |-> FALSE, len |-> 0, dicts |-> FALSE]
NotJson == [given |-> TRUE, json |-> FALSE, list |-> FALSE, len |-> 0, dicts |-> FALSE]
NotList == [given |-> TRUE, json |-> TRUE, list |-> FALSE, len |-> 0, dicts |-> FALSE]
Mismatched == [given |-> TRUE, json |-> TRUE, list |-> TRUE, len |-> 2, dicts |-> TRUE]
NotObjects == [given |-> TRUE, json |-> TRUE, list |-> TRUE, len |-> 1, dicts |-> FALSE]
OneObject == [given |-> TRUE, json |-> TRUE, list |-> TRUE, len |-> 1, dicts |-> TRUE]
MetadatasJson == {NoMetadatas, NotJson, NotList, Mismatched, NotObjects, OneObject}
InvalidMetadatas == {NotJson, NotList, Mismatched, NotObjects}

\* The query strings of a search: the empty one and a non-empty one.
Queries == {"", "q"}

\* One DeleteCollection at a time: the requests of the first slot.
OneAtATime == {1}

DeleteSaga ==
    \/ \E p \in OneAtATime, u \in Users, id \in Ids : delete_collection_resolve(p, u, id)
    \/ \E p \in OneAtATime, o \in {"ok", "fail", "raise"} : delete_collection_blob(p, o)
    \/ \E p \in OneAtATime, fail \in BOOLEAN : delete_collection_catalog(p, fail)
    \/ \E p \in OneAtATime, fail \in BOOLEAN : delete_collection_drop(p, fail)
    \/ \E p \in OneAtATime : delete_collection_registry(p)

NextRB ==
    \/ \E u \in Users, n \in Names, m \in Metadata : create_collection(u, n, m)
    \/ \E u \in Users, id \in Ids : get_collection(u, id)
    \/ \E u \in Users : list_collections(u)
    \/ \E u \in Users, id \in Ids, n \in Names \cup {NoName}, m \in MetaArg :
          update_collection(u, id, n, m)
    \/ DeleteSaga

SpecRB == Init /\ [][NextRB]_vars

NextRBF ==
    \/ nextId <= MaxCollsF /\ create_collection("u1", "n1", EmptyMeta)
    \/ \E u \in Users, id \in Ids : IngestFile(u, id)
    \/ \E u \in Users, id \in Ids, limit \in {1, MaxFiles}, offset \in {0, 1} :
          ListUniqueFiles(u, id, limit, offset)
    \/ \E u \in Users, id \in Ids : SearchChunks(u, id)
    \/ \E u \in Users, id \in Ids, f \in Files : DeleteFile(u, id, f)
    \/ DeleteSaga

SpecRBF == Init /\ [][NextRBF]_vars

\* The files of one ragbackend collection: the documents routes and the
\* /files routes, without the collection's deletion.
NextRBC ==
    \/ nextId <= MaxCollsF /\ \E u \in Users : create_collection(u, "n1", EmptyMeta)
    \/ \E u \in Users, id \in Ids : IngestFile(u, id)
    \/ \E u \in Users, id \in Ids, f \in Files : DeleteFile(u, id, f)
    \/ \E u \in Users, f \in Files : delete_file(u, f)
    \/ \E u \in Users, f \in Files : get_file_info(u, f)

SpecRBC == Init /\ [][NextRBC]_vars

NextLC ==
    \/ \E u \in Users, n \in Names, m \in MetaArg : CollectionsManager_create(u, n, m)
    \/ \E u \in Users, id \in Ids : CollectionsManager_get(u, id)
    \/ \E u \in Users : CollectionsManager_list(u)
    \/ \E u \in Users, id \in Ids, n \in Names \cup {NoName}, m \in MetaArg :
          CollectionsManager_update(u, id, n, m)
    \/ \E u \in Users, id \in Ids : CollectionsManager_delete(u, id)
    \/ \E u \in Users, id \in Ids : Collection_upsert(u, id)
    \/ \E u \in Users, id \in Ids, f \in Files : Collection_delete(u, id, f)
    \/ \E u \in Users, id \in Ids, limit \in {1, MaxFiles}, offset \in {0, 1} :
          LC_Collection_list(u, id, limit, offset)
    \/ \E u \in Users, id \in Ids : LC_Collection_search(u, id)

SpecLC == Init /\ [][NextLC]_vars

\* The langconnect registry alone.
NextLCR ==
    \/ \E u \in Users, n \in Names, m \in MetaArg : CollectionsManager_create(u, n, m)
    \/ \E u \in Users, n \in Names, m \in MetaArg : collections_create(u, n, m)
    \/ \E u \in Users, id \in Ids : CollectionsManager_get(u, id)
    \/ \E u \in Users : CollectionsManager_list(u)
    \/ \E u \in Users, id \in Ids, n \in Names \cup {NoName}, m \in MetaArg :
          CollectionsManager_update(u, id, n, m)
    \/ \E u \in Users, id \in Ids : CollectionsManager_delete(u, id)

SpecLCR == Init /\ [][NextLCR]_vars

\* The langconnect documents of a collection: ingest, search, file deletion.
NextLCD ==
    \/ \E u \in Users, n \in Names, m \in MetaArg : CollectionsManager_create(u, n, m)
    \/ \E u \in Users, id \in Ids : CollectionsManager_delete(u, id)
    \/ \E u \in Users, id \in Ids : Collection_upsert(u, id)
    \/ \E u \in Users, id \in Ids, f \in Files : Collection_delete(u, id, f)
    \/ \E u \in Users, id \in Ids, q \in Queries : documents_search(u, id, q)
    \/ \E u \in Users, id \in Ids, mj \in MetadatasJson : documents_create(u, id, mj)

SpecLCD == Init /\ [][NextLCD]_vars

\* DeleteCollection requests in every slot, over one collection that holds
\* at most one ingested file.
MaxFilesSaga == 1

SagaStep ==
    \/ \E p \in Procs, u \in Users, id \in Ids : delete_collection_resolve(p, u, id)
    \/ \E p \in Procs, o \in {"ok", "fail", "raise"} : delete_collection_blob(p, o)
    \/ \E p \in Procs, fail \in BOOLEAN : delete_collection_catalog(p, fail)
    \/ \E p \in Procs, fail \in BOOLEAN : delete_collection_drop(p, fail)
    \/ \E p \in Procs : delete_collection_registry(p)

NextSaga ==
    \/ nextId <= MaxCollsF /\ create_collection("u1", "n1", EmptyMeta)
    \/ nextFile <= MaxFilesSaga /\ \E u \in Users, id \in Ids : IngestFile(u, id)
    \/ SagaStep

SpecSaga == Init /\ [][NextSaga]_vars

\* A DeleteCollection that has resolved its table_id goes on: each of its
\* statements completes once the store it awaits has answered.
SagaProgress(p) ==
    \/ \E o \in {"ok", "fail", "raise"} : delete_collection_blob(p, o)
    \/ \E fail \in BOOLEAN : delete_collection_catalog(p, fail)
    \/ \E fail \in BOOLEAN : delete_collection_drop(p, fail)
    \/ delete_collection_registry(p)

SpecSagaFair == SpecSaga /\ \A p \in Procs : WF_vars(SagaProgress(p))

\* One DeleteCollection at a time, which may be cancelled at any of its
\* awaits and issued again.
NextSagaC ==
    \/ nextId <= MaxCollsF /\ create_collection("u1", "n1", EmptyMeta)
    \/ nextFile <= MaxFilesSaga /\ \E u \in Users, id \in Ids : IngestFile(u, id)
    \/ DeleteSaga
    \/ \E p \in OneAtATime : delete_collection_cancel(p)

SpecSagaC == Init /\ [][NextSagaC]_vars

\* An upload into a collection and a DeleteCollection of it that overlap,
\* no store failing a statement of the DeleteCollection.
NextRBX ==
    \/ nextId <= MaxCollsF /\ create_collection("u1", "n1", EmptyMeta)
    \/ \E p \in OneAtATime, u \in Users, id \in Ids : process_document(p, u, id)
    \/ \E p \in OneAtATime, upsertFail \in BOOLEAN : Collection_add_documents(p, upsertFail)
    \/ \E p \in OneAtATime, u \in Users, id \in Ids : delete_collection_resolve(p, u, id)
    \/ \E p \in OneAtATime : delete_collection_blob(p, "ok")
    \/ \E p \in OneAtATime : delete_collection_catalog(p, FALSE)
    \/ \E p \in OneAtATime : delete_collection_drop(p, FALSE)
    \/ \E p \in OneAtATime : delete_collection_registry(p)

SpecRBX == Init /\ [][NextRBX]_vars

\* Collections of one owner under one name, their files, and their
\* deletion.
NextRBN ==
    \/ create_collection("u1", "n1", EmptyMeta)
    \/ \E id \in Ids, n \in 1..MaxChunks : IngestFileRun("u1", id, n, FALSE, FALSE)
    \/ \E id \in Ids : ListUniqueFiles("u1", id, MaxFiles, 0)
    \/ \E id \in Ids : SearchChunks("u1", id)
    \/ \E p \in OneAtATime, id \in Ids : delete_collection_resolve(p, "u1", id)
    \/ \E p \in OneAtATime : SagaProgress(p)

SpecRBN == Init /\ [][NextRBN]_vars

\* The calls of get_db_pool and close_db_pool of the coroutines of one
\* process.
NextPool ==
    \/ \E p \in Procs : get_db_pool_test(p)
    \/ \E p \in Procs, fail \in BOOLEAN : get_db_pool_create(p, fail)
    \/ \E p \in Procs : close_db_pool_test(p)
    \/ \E p \in Procs : close_db_pool_reset(p)

SpecPool == Init /\ [][NextPool]_vars

\* The lifespan of the application, the tasks enqueued and the worker.
WorkerStep ==
    \/ worker_get
    \/ \E raises \in BOOLEAN : worker_process_task(raises)

NextWorker ==
    \/ lifespan_startup
    \/ lifespan_shutdown
    \/ \E task \in Tasks : add_task_to_queue(task)
    \/ WorkerStep

SpecWorker == Init /\ [][NextWorker]_vars

\* The event loop runs the worker whenever it can go on.
SpecWorkerFair == SpecWorker /\ WF_vars(WorkerStep)

\* Updates of one langconnect collection that overlap: the update with
\* metadata and no name in its two statements, the updates with a name in
\* their single statement.
NextLCU ==
    \/ nextId <= MaxCollsF /\ \E u \in Users : CollectionsManager_create(u, "n1", EmptyMeta)
    \/ \E p \in Procs, u \in Users, id \in Ids, m \in Metadata :
          CollectionsManager_update_get(p, u, id, m)
    \/ \E p \in Procs : CollectionsManager_update_set(p)
    \/ \E u \in Users, id \in Ids, n \in Names, m \in MetaArg :
          CollectionsManager_update(u, id, n, m)

SpecLCU == Init /\ [][NextLCU]_vars

\* Updates of one ragbackend collection that overlap.
NextRBU ==
    \/ nextId <= MaxCollsF /\ \E u \in Users : create_collection(u, "n1", EmptyMeta)
    \/ \E p \in Procs, u \in Users, id \in Ids, n \in Names \cup {NoName}, m \in MetaArg :
          update_collection_select(p, u, id, n, m)
    \/ \E p \in Procs : update_collection_execute(p)
    \/ \E p \in Procs : update_collection_return(p)

SpecRBU == Init /\ [][NextRBU]_vars

\* Uploads into one ragbackend collection, statement by statement.
NextRBI ==
    \/ nextId <= MaxCollsF /\ \E u \in Users : create_collection(u, "n1", EmptyMeta)
    \/ \E p \in Procs, u \in Users, id \in Ids : process_document(p, u, id)
    \/ \E p \in Procs, upsertFail \in BOOLEAN : Collection_add_documents(p, upsertFail)

SpecRBI == Init /\ [][NextRBI]_vars

\* The tagging of the chunks of the files processed.
NextTag ==
    \E metadata \in CallerMetadata, n \in 1..MaxChunks, stored \in BOOLEAN :
       process_document_tag(metadata, n, stored)

SpecTag == Init /\ [][NextTag]_vars

\* Creations that overlap, statement by statement, and reads.
NextRBK ==
    \/ \E p \in Procs, u \in Users, n \in Names, m \in MetaArg,
          tableOutcome \in {"ok", "raise"} :
          create_collection_provision(p, u, n, m, tableOutcome)
    \/ \E p \in Procs, insertFail \in BOOLEAN : create_collection_insert(p, insertFail)
    \/ \E u \in Users, id \in Ids : get_collection(u, id)

SpecRBK == Init /\ [][NextRBK]_vars

\* Authentication alone, over every content of the users table.
InitAuth ==
    /\ InitStores
    /\ users \in [UserIds -> {"absent", "active", "inactive"}]
    /\ authn = NoAuth
    /\ updating = [p \in Procs |-> NoUpd]
    /\ ingesting = [p \in Procs |-> NoIngest]
    /\ chunkmeta = {}
    /\ creating = [p \in Procs |-> NoCreate]
    /\ pool = [global |-> NoPool, open |-> {}, next |-> 1]
    /\ calls = [p \in Procs |-> NoCall]
    /\ TASK_QUEUE = <<>>
    /\ wk = [lifespan |-> "init", pc |-> "none", task |-> NoTask, handed |-> <<>>,
             put |-> <<>>]

NextAuth == \E token \in Tokens : get_current_user(token)

SpecAuth == InitAuth /\ [][NextAuth]_vars

\* ------------------------------------------------------------------ claims
\* A step of the DeleteCollection request in slot p after its lookup.
DeleteStep(p) ==
    \/ \E o \in {"ok", "fail", "raise"} : delete_collection_blob(p, o)
    \/ \E fail \in BOOLEAN : delete_collection_catalog(p, fail)
    \/ \E fail \in BOOLEAN : delete_collection_drop(p, fail)
    \/ delete_collection_registry(p)

\* C1: for every collection created by a principal A and every other
\* principal B, get(B, id) answers NotFound and list(B) does not contain the
\* collection, after any sequence of operations.
C1_OwnershipIsolation ==
    [][\A b \in Users, id \in Ids :
          (id \in DOMAIN creator /\ creator[id] # b) =>
             (/\ get_collection(b, id) => resp'.status = "NotFound"
              /\ list_collections(b) =>
                    \A i \in DOMAIN resp'.body.ids : resp'.body.ids[i] # id)]_vars

\* C2: update(B, id, ...) and delete(B, id) by a principal B that does not own
\* id (or on an id that does not exist) leave the registry rows, the chunk
\* tables, the File records and the blobs unchanged; the update answers
\* NotFound and the delete acknowledges.
C2_NonOwnerWritesChangeNothing ==
    [][\A b \in Users, id \in Ids :
          (id \notin DOMAIN collections \/ creator[id] # b) =>
             (/\ \A n \in Names \cup {NoName}, m \in MetaArg :
                    ((n # NoName \/ m # NoneMeta) /\ update_collection(b, id, n, m)) =>
                       (resp'.status = "NotFound" /\ UNCHANGED stores)
              /\ \A p \in Procs :
                    delete_collection_resolve(p, b, id) =>
                       (UNCHANGED stores /\ (resp' # resp => resp'.status = "ack"))
              /\ \A p \in Procs :
                    (req[p].pc # "idle" /\ req[p].user = b /\ req[p].id = id /\ DeleteStep(p)) =>
                       (UNCHANGED stores /\ (resp' # resp => resp'.status = "ack")))]_vars

\* C3: IngestFile, ListUniqueFiles, SearchChunks and DeleteFile on a
\* collection the caller does not own (or that does not exist) answer
\* NotFound and change no chunk, File record or blob.
C3_NonOwnerFileOpsNotFound ==
    [][\A b \in Users, id \in Ids :
          (id \notin DOMAIN collections \/ creator[id] # b) =>
             ((\/ IngestFile(b, id)
               \/ \E limit \in {1, MaxFiles}, offset \in {0, 1} :
                     ListUniqueFiles(b, id, limit, offset)
               \/ SearchChunks(b, id)
               \/ \E f \in Files : DeleteFile(b, id, f))
              => (resp'.status = "NotFound" /\ UNCHANGED stores))]_vars

C5_CascadeComplete ==
    [][\A p \in Procs :
          (/\ delete_collection_registry(p)
           /\ ~req[p].failed /\ ~req[p].overlap
           /\ creator[req[p].id] = req[p].user
           /\ \E f \in DOMAIN uploader : uploader[f] = <<req[p].user, req[p].id>>)
          => (/\ req[p].table_id \notin DOMAIN vtables'
              /\ \A r \in file_storage' : r.collection_id # req[p].id
              /\ \A b \in blobs' : ~UnderPrefix(b, req[p].user, req[p].id)
              /\ req[p].id \notin DOMAIN collections')]_vars

\* C6: in DeleteCollection the registry row is removed last: only after the
\* blob deleteByPrefix, the File catalog deleteByCollection and the chunk
\* table drop have each been attempted, in that order.
C6_RegistryRowLast ==
    [][\A p \in Procs :
          delete_collection_registry(p) =>
             req[p].trace = <<"blob", "catalog", "drop">>]_vars

\* C7: deleting a collection never leaves its chunk table behind: whenever
\* DeleteCollection has removed the registry row of a collection, whichever
\* of its steps failed, the chunk table of that collection does not exist.
C7_NoChunkTableLeftBehind ==
    \A id \in DOMAIN creator :
       id \notin DOMAIN collections => TableOf(id) \notin DOMAIN vtables

\* C8: create then get round-trips: get(owner, create(owner, n, m).id)
\* returns the name n and the metadata m augmented with owner_id = owner.
C8_CreateGetRoundTrip ==
    [][\A u \in Users, n \in Names, m \in Metadata, id \in Ids :
          (id = nextId /\ create_collection(u, n, m)) =>
             rb_get_row(id)' = [found |-> TRUE, name |-> n,
                                metadata |-> [m EXCEPT !.owner_id = u]]]_vars

\* C9: the owner_id held in a collection's metadata always equals the
\* principal that created the collection, whatever metadata the tenant
\* supplied at creation or in an update.
C9_OwnerIdIsCreator ==
    \A id \in DOMAIN collections : collections[id].metadata.owner_id = creator[id]

\* C10: update with neither a name nor a metadata answers Validation and
\* leaves the registry unchanged, whether or not the collection exists.
C10_EmptyUpdateIsValidation ==
    [][\A u \in Users, id \in Ids :
          update_collection(u, id, NoName, NoneMeta) =>
             (resp'.status = "Validation" /\ UNCHANGED collections)]_vars

\* C11: for a collection owned by the caller, update returns and stores:
\* with only a name, the new name and the previous metadata; with only a
\* metadata, the previous name and the given metadata plus owner_id; with
\* both, the new name and the given metadata plus owner_id.
C11_UpdateMatrix ==
    [][\A u \in Users, id \in Ids, n \in Names \cup {NoName}, m \in MetaArg :
          (/\ lc_get(u, id).found
           /\ n # NoName \/ m # NoneMeta
           /\ CollectionsManager_update(u, id, n, m))
          => LET old == lc_get(u, id)
                 new == lc_get(u, id)'
                 name == IF n # NoName THEN n ELSE old.name
                 metadata == IF m # NoneMeta THEN [m EXCEPT !.owner_id = u]
                             ELSE old.metadata
             IN /\ new = [found |-> TRUE, name |-> name, metadata |-> metadata]
                /\ resp'.status = "200"
                /\ resp'.body.name = name
                /\ resp'.body.metadata = metadata]_vars

\* C11 happens: an owner's update has renamed a collection and replaced
\* its metadata.
C11_Witness ==
    /\ resp.op = "update" /\ resp.status = "200"
    /\ \E id \in DOMAIN pg_collection :
          /\ creator[id] = "u1"
          /\ pg_collection[id].cmetadata = [a |-> "x", owner_id |-> "u1", name |-> "n2"]
          /\ resp.body.name = "n2"
          /\ resp.body.metadata = [a |-> "x", owner_id |-> "u1"]

\* C12: a collection's id and table_id never change: in every state in
\* which a collection exists, its id and its table_id are the ones recorded
\* at its creation, across any sequence of updates, renames included.
C12_IdAndTableIdImmutable ==
    \A id \in DOMAIN pg_collection :
       /\ pg_collection[id].uuid = id
       /\ pg_collection[id].name = TableOf(id)

\* C12 happens: an update has just renamed an existing collection.
C12_Witness ==
    /\ resp.op = "update" /\ resp.status = "200" /\ resp.body.name = "n2"
    /\ \E id \in DOMAIN pg_collection : pg_collection[id].cmetadata.name = "n2"

\* C13: two creates with the same name both succeed and yield collections
\* with distinct ids; no create is rejected because a collection with that
\* name already exists.
C13_DuplicateNamesAccepted ==
    [][\A u \in Users, n \in Names, m \in MetaArg :
          (nextId <= MaxColls /\
             (collections_create(u, n, m) \/ CollectionsManager_create(u, n, m)))
          => (/\ resp'.status = "201"
              /\ nextId \notin DOMAIN pg_collection
              /\ nextId \in DOMAIN pg_collection')]_vars

\* At the CollectionsManager a create never looks at the names in the
\* registry: it succeeds with a fresh id.
LC_ManagerCreateAcceptsDuplicates ==
    [][\A u \in Users, n \in Names, m \in MetaArg :
          CollectionsManager_create(u, n, m)
          => (/\ resp'.status = "201"
              /\ nextId \notin DOMAIN pg_collection
              /\ nextId \in DOMAIN pg_collection')]_vars

Range(q) == {q[i] : i \in DOMAIN q}

\* Nothing of the document file_id is left: no chunk carrying the file_id,
\* no File record, no blob.
FileGone(file_id) ==
    /\ \A t \in DOMAIN vtables : \A c \in vtables[t] : c[1] # file_id
    /\ \A r \in file_storage : r.file_id # file_id
    /\ \A b \in blobs : b[3] # file_id

\* C15: every user-facing deletion of a document identified by a file_id,
\* when no store fails, ends with no chunk carrying that file_id in the
\* collection's chunk table, no File record for that file_id and no blob at
\* its object path.
C15_FileDeletionComplete ==
    [][\A u \in Users, f \in Files :
          get_file_metadata(f) # {} =>
             (/\ (delete_file_run(u, f, FALSE, FALSE) /\ resp'.status = "200")
                    => FileGone(f)'
              /\ \A c \in Ids :
                    (DeleteFileRun(u, c, f, FALSE, "ok", FALSE) /\ resp'.status = "true")
                    => FileGone(f)')]_vars

\* Collection.delete alone, when no store fails, leaves nothing of a
\* catalogued document.
RB_CollectionDeleteComplete ==
    [][\A u \in Users, f \in Files, c \in Ids :
          (/\ get_file_metadata(f) # {}
           /\ DeleteFileRun(u, c, f, FALSE, "ok", FALSE)
           /\ resp'.status = "true")
          => FileGone(f)']_vars

\* C14: list(owner) returns exactly the registry rows whose
\* metadata.owner_id equals owner, all of them and no others, ordered by
\* name; for an owner with no collections it returns the empty list.
C14_ListExactlyOwned ==
    [][\A u \in Users :
          list_collections(u) =>
             /\ Range(resp'.body.ids) =
                   {id \in DOMAIN collections : collections[id].metadata.owner_id = u}
             /\ \A i, j \in DOMAIN resp'.body.ids :
                   i < j => NameRank(collections[resp'.body.ids[i]].name)
                               <= NameRank(collections[resp'.body.ids[j]].name)]_vars

\* The langconnect list returns exactly the caller's rows, ordered by name.
LC_ListExactlyOwned ==
    [][\A u \in Users :
          CollectionsManager_list(u) =>
             /\ Range(resp'.body.ids) =
                   {id \in DOMAIN pg_collection : pg_collection[id].cmetadata.owner_id = u}
             /\ Len(resp'.body.ids) = Cardinality(Range(resp'.body.ids))
             /\ \A i, j \in DOMAIN resp'.body.ids :
                   i < j => NameRank(pg_collection[resp'.body.ids[i]].cmetadata.name)
                               <= NameRank(pg_collection[resp'.body.ids[j]].cmetadata.name)]_vars

\* C16: DeleteFile(owner, collectionId, fileId) on a collection owned by
\* the caller is idempotent: a repeat call made after the file's chunks were
\* already removed reports success, not an error or a failure result.
C16_DeleteFileIdempotent ==
    [][\A u \in Users, c \in Ids, f \in Files :
          (/\ c \in DOMAIN collections /\ creator[c] = u
           /\ f \in DOMAIN uploader /\ uploader[f][2] = c
           /\ Collection_delete_ids(vtables, collections[c].table_id, f) = {}
           /\ DeleteFile(u, c, f))
          => resp'.status = "true"]_vars

\* The langconnect Collection.delete answers True to its owner when no
\* chunk carries the file_id any more.
LC_DeleteFileIdempotent ==
    [][\A u \in Users, c \in Ids, f \in Files :
          (/\ c \in DOMAIN pg_collection /\ creator[c] = u
           /\ lc_file_chunks(u, c, f) = {}
           /\ Collection_delete(u, c, f))
          => resp'.status = "true"]_vars

\* The members of a set of numbers in ascending order.
Ascending(S) == CHOOSE q \in SeqsOver(S) : \A i, j \in DOMAIN q : i < j => q[i] < q[j]

\* The distinct file_ids carried by the chunks of a ragbackend collection.
FileIdsIn(c) ==
    IF collections[c].table_id \in DOMAIN vtables
    THEN {ch[1] : ch \in vtables[collections[c].table_id]}
    ELSE {}

\* C17: ListUniqueFiles(limit, offset) equals the reference result: of the
\* chunks of the collection that carry a file_id, one entry for each
\* distinct file_id, sorted by file_id, then offset and limit applied to
\* that per-file sequence (here for an owner whose catalog records are
\* exactly the files that have chunks).
C17_ListUniqueFilesReference ==
    [][\A u \in Users, c \in Ids, limit \in {1, MaxFiles}, offset \in {0, 1} :
          (/\ c \in DOMAIN collections /\ creator[c] = u
           /\ get_files_by_collection(c, u) = FileIdsIn(c)
           /\ ListUniqueFiles(u, c, limit, offset))
          => resp'.body.ids = Slice(Ascending(FileIdsIn(c)), limit, offset)]_vars

\* The langconnect Collection.list returns, for its owner, the lowest chunk
\* of every distinct file_id, sorted by file_id, then sliced.
LC_ListUniqueFilesReference ==
    [][\A u \in Users, c \in Ids, limit \in {1, MaxFiles}, offset \in {0, 1} :
          (/\ c \in DOMAIN pg_collection /\ creator[c] = u
           /\ LC_Collection_list(u, c, limit, offset))
          => LET files == {e.file_id : e \in {x \in pg_embedding : x.collection_id = c}}
                 ref == Slice(Ascending(files), limit, offset)
             IN /\ resp'.status = "200"
                /\ Len(resp'.body.ids) = Len(ref)
                /\ \A i \in DOMAIN ref :
                      /\ resp'.body.ids[i][1] = ref[i]
                      /\ \A x \in pg_embedding :
                            (x.collection_id = c /\ x.file_id = ref[i])
                               => resp'.body.ids[i][2] <= x.id[2]]_vars

C19_NoForbiddenOutcome ==
    [][\A u \in Users, f \in Files :
          (/\ \A r \in get_file_metadata(f) : r.user_id # u
           /\ get_file_info(u, f))
          => resp' = Response("fileinfo", "NotFound", NoBody)]_vars

\* C20: every File Metadata Catalog operation made for a calling principal
\* returns or removes only records whose user_id is that principal,
\* whatever file_id is supplied: the record the catalog's get hands to
\* get_file_info, and the records delete_file removes, are the caller's own.
C20_CatalogScopedToCaller ==
    [][\A u \in Users, f \in Files :
          /\ get_file_info(u, f) => \A r \in get_file_metadata(f) : r.user_id = u
          /\ delete_file(u, f) => \A r \in file_storage \ file_storage' : r.user_id = u
         ]_vars

\* The deletion of a document by Collection.delete removes only File records
\* of the caller.
RB_DocumentDeleteScopedToCaller ==
    [][\A u \in Users, f \in Files, c \in Ids :
          DeleteFile(u, c, f) => \A r \in file_storage \ file_storage' : r.user_id = u]_vars

\* C21: IngestFile whose metadata is not valid JSON, is not a list,
\* contains an entry that is not an object, or has a length different from
\* the number of files is rejected with a Validation error and adds no
\* chunk, File record or blob.
C21_InvalidMetadataIsValidation ==
    [][\A u \in Users, c \in Ids, mj \in InvalidMetadatas :
          documents_create(u, c, mj)
          => (/\ resp'.status = "Validation"
              /\ UNCHANGED <<pg_embedding, stores>>)]_vars

\* In a collection of the caller, an upload with invalid metadatas is
\* answered 400 and adds nothing.
LC_InvalidMetadataInOwnCollection ==
    [][\A u \in Users, c \in Ids, mj \in InvalidMetadatas :
          (lc_get(u, c).found /\ documents_create(u, c, mj))
          => (/\ resp'.status = "Validation"
              /\ UNCHANGED <<pg_embedding, stores>>)]_vars

\* C22: get_current_user returns a user only when the token verifies,
\* carries a sub claim, and the user of that id exists and is active;
\* otherwise it fails with 401 for the first of these that does not hold,
\* in that order, and the users table is read only after the token and sub
\* checks passed.
C22_GetCurrentUserChecks ==
    authn.status # "none" =>
       LET t == authn.token
           verified == t.key = "SECRET_KEY" /\ ~t.expired
           hasSub == t.sub # NoSub
           exists == hasSub /\ users[t.sub] # "absent"
           active == hasSub /\ users[t.sub] = "active"
           read == \E i \in DOMAIN authn.trace : authn.trace[i] = "get_user_by_id"
       IN /\ authn.status \in {"user", "401"}
          /\ authn.status = "user" <=> (verified /\ hasSub /\ exists /\ active)
          /\ authn.status = "user" => authn.user = t.sub
          /\ authn.status = "401" =>
                authn.detail = IF ~verified THEN "Invalid token"
                               ELSE IF ~hasSub THEN "Invalid token payload"
                               ELSE IF ~exists THEN "User not found"
                               ELSE "User account is inactive"
          /\ read <=> (verified /\ hasSub)

\* A verified token with a sub of an existing, inactive user was refused
\* after the users table was read.
C22_Witness ==
    /\ authn.status = "401" /\ authn.detail = "User account is inactive"
    /\ authn.token.sub # NoSub /\ users[authn.token.sub] = "inactive"

\* C23: in DeleteCollection a failure of one sub-step does not abort the
\* remaining steps: whatever the blob deleteByPrefix did, the File catalog
\* deleteByCollection is executed next; whatever that did, the chunk table
\* drop is next; whatever that did, the registry deletion is next.
C23_FailureDoesNotAbort ==
    [][\A p \in Procs :
          /\ \A o \in {"ok", "fail", "raise"} :
                delete_collection_blob(p, o) => req'[p].pc = "catalog"
          /\ \A fail \in BOOLEAN :
                /\ delete_collection_catalog(p, fail) => req'[p].pc = "drop"
                /\ delete_collection_drop(p, fail) => req'[p].pc = "registry"]_vars

\* C24: DeleteCollection by the owner fails only when table_id cannot be
\* resolved: once the registry row was found, whichever of the blob, File
\* catalog and table steps fail, the request runs to its end, the registry
\* row is removed and the request answers success.
C24_OwnerDeleteRunsToEnd ==
    \A p \in Procs, id \in Ids :
       (req[p].pc # "idle" /\ req[p].id = id /\ creator[id] = req[p].user)
          ~> (/\ req[p].pc = "idle"
              /\ id \notin DOMAIN collections
              /\ resp.op = "delete" /\ resp.status = "ack")

\* The owner's DeleteCollection has ended and removed the registry row
\* although its table step failed: the chunk table is still there.
C24_Witness ==
    /\ resp.op = "delete" /\ resp.status = "ack"
    /\ lastDel.valid /\ lastDel.id \in DOMAIN creator
    /\ creator[lastDel.id] = lastDel.user
    /\ lastDel.id \notin DOMAIN collections
    /\ TableOf(lastDel.id) \in DOMAIN vtables

C25_InterruptedDeleteResumes ==
    [][\A p \in Procs :
          /\ \A id \in Ids :
                (delete_collection_cancel(p) /\ req[p].id = id)
                => (id \in DOMAIN collections' /\ rb_get_row(id)'.found)
          /\ (/\ delete_collection_registry(p)
              /\ req[p].resumed /\ ~req[p].failed /\ ~req[p].overlap
              /\ creator[req[p].id] = req[p].user)
             => (/\ \A b \in blobs' : ~UnderPrefix(b, req[p].user, req[p].id)
                 /\ \A r \in file_storage' : r.collection_id # req[p].id
                 /\ req[p].table_id \notin DOMAIN vtables'
                 /\ req[p].id \notin DOMAIN collections')]_vars

\* The same, for a collection into which only its owner has ingested.
RB_InterruptedDeleteResumesOwnFiles ==
    [][\A p \in Procs :
          /\ \A id \in Ids :
                (delete_collection_cancel(p) /\ req[p].id = id)
                => (id \in DOMAIN collections' /\ rb_get_row(id)'.found)
          /\ (/\ delete_collection_registry(p)
              /\ req[p].resumed /\ ~req[p].failed /\ ~req[p].overlap
              /\ creator[req[p].id] = req[p].user
              /\ \A f \in DOMAIN uploader :
                    uploader[f][2] = req[p].id => uploader[f][1] = req[p].user)
             => (/\ \A b \in blobs' : ~UnderPrefix(b, req[p].user, req[p].id)
                 /\ \A r \in file_storage' : r.collection_id # req[p].id
                 /\ req[p].table_id \notin DOMAIN vtables'
                 /\ req[p].id \notin DOMAIN collections')]_vars

\* C27: each update takes effect as one atomic step on the registry row:
\* a metadata-only update by the owner, whatever name-only update ran
\* between its statements, leaves the row with the name it has at that
\* moment and with the new metadata; it never writes back an older name.
C27_UpdateIsAtomic ==
    [][\A p \in Procs, id \in Ids :
          (/\ CollectionsManager_update_set(p)
           /\ updating[p].id = id
           /\ lc_get(updating[p].user, id).found)
          => (/\ pg_collection'[id].cmetadata.name = pg_collection[id].cmetadata.name
              /\ pg_collection'[id].cmetadata.a = updating[p].metadata.a)]_vars

\* The UPDATE of a ragbackend metadata-only update leaves the name column
\* as it finds it and sets the new metadata; that of a name-only update
\* leaves the metadata column.
RB_UpdateIsAtomic ==
    [][\A p \in Procs, id \in Ids :
          (/\ update_collection_execute(p)
           /\ updating[p].id = id
           /\ id \in DOMAIN collections)
          => (/\ updating[p].name = NoName => collections'[id].name = collections[id].name
              /\ updating[p].name # NoName => collections'[id].name = updating[p].name
              /\ updating[p].metadata = NoneMeta
                    => collections'[id].metadata = collections[id].metadata
              /\ updating[p].metadata # NoneMeta
                    => collections'[id].metadata = updating[p].metadata)]_vars

C29_ReissuedDeleteFileCleansUp ==
    [][\A f \in Files :
          (/\ f \in DOMAIN uploader
           /\ load_details(uploader[f][1], uploader[f][2])
           /\ Collection_delete_ids(vtables, collections[uploader[f][2]].table_id, f) = {}
           /\ get_file_metadata(f) # {}
           /\ DeleteFileRun(uploader[f][1], uploader[f][2], f, FALSE, "ok", FALSE))
          => (/\ {r \in file_storage' : r.file_id = f} = {}
              /\ ObjectPath(uploader[f][1], uploader[f][2], f) \notin blobs')]_vars

\* C30: in every IngestFile execution the blob put and the File catalog
\* insert of a file are attempted only after the ChunkStore upsert of that
\* file's chunks has succeeded: while no file is deleted, a blob or a File
\* record of a file is there only with the chunks of the file in the table
\* of its collection.
C30_BlobAndRecordAfterUpsert ==
    \A f \in DOMAIN uploader :
       (\/ get_file_metadata(f) # {}
        \/ ObjectPath(uploader[f][1], uploader[f][2], f) \in blobs)
       => Collection_delete_ids(vtables, collections[uploader[f][2]].table_id, f) # {}

\* C31: a failure of the blob upload or of the File record insert does not
\* abort IngestFile: it answers 200 with the chunks of the file, each tagged
\* with the file_id, they are in the table of the collection and a search
\* returns them, and what the stores held before is all still there.
C31_UploadFailureDoesNotAbortIngest ==
    [][\A u \in Users, coll \in Ids, n \in 1..MaxChunks, blobFail, catFail \in BOOLEAN :
          (/\ IngestFileRun(u, coll, n, blobFail, catFail)
           /\ load_details(u, coll)
           /\ blobFail \/ catFail)
          => LET tid == collections[coll].table_id
                 file_id == nextFile
             IN /\ resp'.status = "200"
                /\ Cardinality(resp'.body.chunks) = n
                /\ \A c \in resp'.body.chunks : c[1] = file_id
                /\ resp'.body.chunks \subseteq Collection_search(vtables', tid)
                /\ Collection_delete_ids(vtables', tid, file_id) = resp'.body.chunks
                /\ \A t \in DOMAIN vtables :
                      t \in DOMAIN vtables' /\ vtables[t] \subseteq vtables'[t]
                /\ blobs \subseteq blobs'
                /\ file_storage \subseteq file_storage']_vars

\* The last request was an IngestFile that answered with chunks which are in
\* the table, while the file has no File record: its upload or its insert
\* failed.
C31_Witness ==
    /\ resp.op = "ingest" /\ resp.status = "200"
    /\ resp.body.chunks # {}
    /\ \E f \in DOMAIN uploader :
          /\ \A c \in resp.body.chunks : c[1] = f
          /\ get_file_metadata(f) = {}
          /\ load_details(uploader[f][1], uploader[f][2])
          /\ resp.body.chunks \subseteq
                Collection_search(vtables, collections[uploader[f][2]].table_id)

\* C32: every chunk of one IngestFile carries the file_id generated for
\* that ingest, whatever file_id the caller's metadata gave; every other
\* key of the caller's metadata is kept with the caller's value; chunks of
\* two ingests never share a file_id.
C32_ChunksTaggedWithFileId ==
    \A c \in chunkmeta :
       /\ c.metadata["file_id"] = c.ingest
       /\ \A k \in ChunkKeys \ {"file_id"} :
             c.caller[k] # "absent" => c.metadata[k] = c.caller[k]
       /\ \A d \in chunkmeta :
             (c.metadata["file_id"] = d.metadata["file_id"]) <=> (c.ingest = d.ingest)

\* The same with the key "original_file" left aside.
RB_ChunksTaggedWithFileId ==
    \A c \in chunkmeta :
       /\ c.metadata["file_id"] = c.ingest
       /\ \A k \in ChunkKeys \ {"file_id", "original_file"} :
             c.caller[k] # "absent" => c.metadata[k] = c.caller[k]
       /\ \A d \in chunkmeta :
             (c.metadata["file_id"] = d.metadata["file_id"]) <=> (c.ingest = d.ingest)

\* C33: deleteByFileId on a collection of the caller removes every chunk of
\* the collection with that file_id and no other chunk, of this or of
\* another collection, and returns the number of chunks removed, zero
\* included, without an error.
C33_DeleteByFileIdReturnsCount ==
    [][\A u \in Users, coll \in Ids, f \in Files :
          (Collection_delete(u, coll, f) /\ get_details_or_raise(u, coll))
          => LET gone == {e \in pg_embedding : e.collection_id = coll /\ e.file_id = f}
             IN /\ pg_embedding' = pg_embedding \ gone
                /\ resp'.status = "true"
                /\ resp'.body.count = Cardinality(gone)]_vars

\* The chunks removed are those of the file in the collection, and the call
\* succeeds also when there are none.
LC_DeleteByFileIdFrame ==
    [][\A u \in Users, coll \in Ids, f \in Files :
          (Collection_delete(u, coll, f) /\ get_details_or_raise(u, coll))
          => LET gone == {e \in pg_embedding : e.collection_id = coll /\ e.file_id = f}
             IN /\ pg_embedding' = pg_embedding \ gone
                /\ resp'.status = "true"]_vars

\* C34: create provisions the chunk table before it writes the registry
\* row: every registry row there is has its chunk table; when the registry
\* write fails after the provisioning, create answers 500 (Internal) and
\* the registry is as it was.
C34_TableBeforeRegistryRow ==
    /\ [](\A id \in DOMAIN collections : collections[id].table_id \in DOMAIN vtables)
    /\ [][\A p \in Procs :
             create_collection_insert(p, TRUE)
             => (/\ resp'.op = "create" /\ resp'.status = "500"
                 /\ collections' = collections
                 /\ TableOf(creating[p].uuid) \in DOMAIN vtables')]_vars

\* A create has answered 500 and left a table that no registry row names
\* and no create in flight has made: its INSERT failed.
C34_Witness ==
    /\ resp.op = "create" /\ resp.status = "500"
    /\ \A p \in Procs : creating[p].pc = "idle"
    /\ \E t \in DOMAIN vtables : \A id \in DOMAIN collections : collections[id].table_id # t

\* A DeleteFile that removes File catalog rows has removed the chunks of the
\* file in the same call, before them.
RB_DeleteFileChunksBeforeCatalog ==
    [][\A u \in Users, coll \in Ids, f \in Files, chunkFail, catFail \in BOOLEAN,
          blobOutcome \in {"ok", "fail", "raise"} :
          (/\ DeleteFileRun(u, coll, f, chunkFail, blobOutcome, catFail)
           /\ file_storage' # file_storage)
          => (/\ Collection_delete_ids(vtables, collections[coll].table_id, f) # {}
              /\ Collection_delete_ids(vtables', collections[coll].table_id, f) = {})]_vars

\* C35: on both delete paths the removal of the chunks (DeleteFile) or of
\* the chunk table (DeleteCollection) is executed before the File catalog
\* rows are removed: the catalog step of a DeleteCollection comes after its
\* DROP TABLE step, and a DeleteFile removes catalog rows only after the
\* chunks of the file.
C35_ChunkRemovalBeforeCatalog ==
    [][/\ \A p \in Procs, fail \in BOOLEAN :
             delete_collection_catalog(p, fail)
             => \E i \in DOMAIN req[p].trace : req[p].trace[i] = "drop"
       /\ \A u \in Users, coll \in Ids, f \in Files :
             (DeleteFile(u, coll, f) /\ file_storage' # file_storage)
             => Collection_delete_ids(vtables', collections[coll].table_id, f) = {}]_vars

\* C36: when an IngestFile and a DeleteCollection of the same collection
\* overlap, once the DeleteCollection has removed the registry row the
\* collection has no chunk table, hence no chunk, left.
C36_NoChunkOutlivesCollection ==
    \A id \in DOMAIN creator :
       id \notin DOMAIN collections => TableOf(id) \notin DOMAIN vtables

\* C37: distinct collections have distinct table_ids, also under one name
\* and one owner; ListUniqueFiles and SearchChunks of a collection return
\* only files and chunks ingested into it, and no statement of a
\* DeleteCollection changes the chunks of another collection.
C37_DistinctTableIds ==
    /\ [](\A i, j \in DOMAIN collections :
             i # j => collections[i].table_id # collections[j].table_id)
    /\ [][/\ \A id \in Ids :
                ListUniqueFiles("u1", id, MaxFiles, 0)
                => \A k \in DOMAIN resp'.body.ids : uploader[resp'.body.ids[k]][2] = id
          /\ \A id \in Ids :
                SearchChunks("u1", id)
                => \A c \in resp'.body.chunks : uploader[c[1]][2] = id
          /\ \A p \in OneAtATime :
                SagaProgress(p)
                => \A id \in DOMAIN collections \ {req[p].id} :
                      collections[id].table_id \in DOMAIN vtables
                      => (/\ collections[id].table_id \in DOMAIN vtables'
                          /\ vtables'[collections[id].table_id]
                                = vtables[collections[id].table_id])]_vars

\* Two collections of one creator under one name, one holding chunks, a
\* search of the other having returned none.
C37_Witness ==
    /\ resp.op = "search" /\ resp.status = "200" /\ resp.body.chunks = {}
    /\ \E i, j \in DOMAIN collections :
          /\ i # j
          /\ collections[i].name = collections[j].name
          /\ creator[i] = creator[j]
          /\ collections[i].table_id \in DOMAIN vtables
          /\ collections[j].table_id \in DOMAIN vtables
          /\ vtables[collections[i].table_id] # {}
          /\ vtables[collections[j].table_id] = {}

\* Distinct rows of langchain_pg_collection have distinct uuids and names
\* (the table_id), also under one collection name and one owner.
LC_DistinctTableIds ==
    \A i, j \in DOMAIN pg_collection :
       i # j => (/\ pg_collection[i].uuid # pg_collection[j].uuid
                 /\ pg_collection[i].name # pg_collection[j].name)

\* C38: at most one connection pool is open in the process at any time, and
\* the callers of get_db_pool since the last close_db_pool all hold the
\* same pool.
C38_OnePoolPerProcess ==
    /\ Cardinality(pool.open) <= 1
    /\ \A p, q \in Procs :
          (calls[p].got # NoPool /\ calls[q].got # NoPool) => calls[p].got = calls[q].got

\* C39: the worker exits exactly when it dequeues the sentinel of the
\* lifespan shutdown, never because of a task that was enqueued or because
\* process_task raised; when it has exited every task enqueued before the
\* sentinel has been handed to process_task; after the shutdown it
\* eventually exits.
C39_WorkerExitsOnSentinel ==
    /\ [][(wk.pc # "exited" /\ wk'.pc = "exited")
            => (wk.lifespan = "shutdown" /\ Head(TASK_QUEUE) = Sentinel)]_vars
    /\ [](wk.pc = "exited" => wk.handed = wk.put)
    /\ (wk.lifespan = "shutdown") ~> (wk.pc = "exited")

\* The same of the runs in which no empty dict was enqueued, and the
\* termination in all of them.
LC_WorkerExitsOnSentinel ==
    /\ [][(/\ wk.pc # "exited" /\ wk'.pc = "exited"
            /\ \A i \in DOMAIN wk.put : wk.put[i] # "empty_dict")
            => (wk.lifespan = "shutdown" /\ Head(TASK_QUEUE) = Sentinel)]_vars
    /\ []((wk.pc = "exited" /\ \A i \in DOMAIN wk.put : wk.put[i] # "empty_dict")
             => wk.handed = wk.put)
    /\ (wk.lifespan = "shutdown") ~> (wk.pc = "exited")

\* ------------------------------- the langconnect generation, for comparison
\* Ownership isolation in the langconnect registry: get and list of a
\* principal never show another principal's collection.
LC_OwnershipIsolation ==
    [][\A b \in Users, id \in Ids :
          (id \in DOMAIN creator /\ creator[id] # b) =>
             (/\ CollectionsManager_get(b, id) => resp'.status = "NotFound"
              /\ CollectionsManager_list(b) =>
                    \A i \in DOMAIN resp'.body.ids : resp'.body.ids[i] # id)]_vars

\* In the langconnect registry an update or delete by a principal that does
\* not own the collection changes no table; the update answers NotFound and
\* the delete reports 0 rows.
LC_NonOwnerWritesChangeNothing ==
    [][\A b \in Users, id \in Ids :
          (id \notin DOMAIN pg_collection \/ creator[id] # b) =>
             (/\ \A n \in Names \cup {NoName}, m \in MetaArg :
                    ((n # NoName \/ m # NoneMeta) /\ CollectionsManager_update(b, id, n, m)) =>
                       (resp'.status = "NotFound" /\ UNCHANGED <<lc, bg>>)
              /\ CollectionsManager_delete(b, id) =>
                    (resp'.status = "ack" /\ resp'.body.count = 0 /\ UNCHANGED <<lc, bg>>))]_vars

\* The langconnect Collection answers NotFound to a principal that does not
\* own the collection, and changes no chunk.
LC_NonOwnerFileOpsNotFound ==
    [][\A b \in Users, id \in Ids :
          (id \notin DOMAIN pg_collection \/ creator[id] # b) =>
             ((\/ Collection_upsert(b, id)
               \/ \E limit \in {1, MaxFiles}, offset \in {0, 1} :
                     LC_Collection_list(b, id, limit, offset)
               \/ LC_Collection_search(b, id)
               \/ \E f \in Files : Collection_delete(b, id, f))
              => (resp'.status = "NotFound" /\ UNCHANGED <<lc, bg>>))]_vars

\* In the langconnect registry no chunk of a deleted collection remains.
LC_NoChunksLeftBehind ==
    \A e \in pg_embedding : e.collection_id \in DOMAIN pg_collection

\* In the langconnect registry create then get round-trips, with owner_id
\* added to the metadata.
LC_CreateGetRoundTrip ==
    [][\A u \in Users, n \in Names, m \in Metadata, id \in Ids :
          (id = nextId /\ CollectionsManager_create(u, n, m)) =>
             lc_get(u, id)' = [found |-> TRUE, name |-> n,
                               metadata |-> [m EXCEPT !.owner_id = u]]]_vars

\* In the langconnect registry the stored owner_id is the creating principal.
LC_OwnerIdIsCreator ==
    \A id \in DOMAIN pg_collection : pg_collection[id].cmetadata.owner_id = creator[id]

\* In the langconnect registry the empty update answers Validation and
\* changes nothing.
LC_EmptyUpdateIsValidation ==
    [][\A u \in Users, id \in Ids :
          CollectionsManager_update(u, id, NoName, NoneMeta) =>
             (resp'.status = "Validation" /\ UNCHANGED pg_collection)]_vars

====
